---- MODULE Spec2Model ----
(***************************************************************************)
(* A model of the fairOS-rs client: the session store (client.rs), the     *)
(* transport calls get / post / delete (client.rs) and the operations of   *)
(* user.rs, pod.rs, filesystem.rs, kv.rs and doc.rs that are built on      *)
(* them.                                                                   *)
(*                                                                         *)
(* Strings that the code takes apart or puts together (header values,      *)
(* tokens) are sequences of atoms; an atom stands for a run of characters  *)
(* holding neither ';' nor '='.  Option<T> is a sequence of length 0 or 1. *)
(* An async operation is the call up to its `.await` on the HTTP request    *)
(* and the polls that resume it: a transport call waits for the response   *)
(* and, having read its status and headers, waits again for its body.      *)
(***************************************************************************)
EXTENDS Integers, Sequences, FiniteSets, Bags, TLC

VARIABLES
    cookies,    \* Client.cookies: HashMap<String, String>, a function on the stored usernames
    call,       \* the operation invoked last: its request(s), the reply, its result
    trace,      \* the set_cookie / remove_cookie calls made directly on the store (StoreSpec)
    stream,     \* the KeyValueSeek a kv_seek returned, while the caller holds it: an Option
    polls,      \* what the polls of that stream did: requests sent, results, items delivered
    server,     \* the server's seek cursor: the stored pairs it has not handed out yet
    expr,       \* the Expr last handed to Expr::to_string, and what compiling it gave
    applied,    \* a function called on its own: its name, its argument, what it returned
    suspended   \* the calls that are awaiting their reply while `call` is another one: a bag

vars == <<cookies, call, trace, stream, polls, server, expr, applied, suspended>>

----------------------------------------------------------------------------
(* Values *)

None == <<>>
Some(x) == <<x>>

Usernames == {"alice", "bob"}

\* The longest sequence of direct session-store calls StoreSpec explores.
MaxTrace == 4

\* No function has been called on its own.
NotApplied == [fn |-> "none", arg |-> <<>>, ret |-> <<>>]

\* Tokens the direct session-store calls of StoreSpec pass to set_cookie.
StoreTokens == {<<"t1">>, <<"t2">>}

----------------------------------------------------------------------------
(* The network: what the server may answer *)

Statuses == {199, 200, 299, 300}

Messages ==
    { "user signup: user name already present",
      "user login: invalid user name",
      "user login: invalid password",
      "other" }

\* A body of the shape of the operation's success type; a body that cannot be read
\* to its end or that serde_json rejects for every type; a {message, code} body.
DataBody == [kind |-> "data", message |-> "", code |-> 0]
GarbageBody == [kind |-> "garbage", message |-> "", code |-> 0]
Envelope(m, c) == [kind |-> "envelope", message |-> m, code |-> c]

Bodies ==
    {DataBody, GarbageBody} \cup {Envelope(m, 400) : m \in Messages}
        \cup {Envelope("other", 500)}

\* A run of bytes of a header value that are not visible ASCII.
ObsText == "<obs-text>"

\* The Set-Cookie header values of a response, in the order they were sent.
SetCookieSamples ==
    { <<>>,
      << <<"fairOS-dfs", "=", "t1">> >>,
      << <<"fairOS-dfs", "=", "t2", ";", "Path", "=", "/">> >>,
      << <<"other", "=", "t1">> >>,
      << <<"fairOS-dfs", "=", "t1", "=", "t2">> >>,
      << <<"fairOS-dfs">> >>,
      << <<"fairOS-dfs", "=", "t1", ObsText>> >>,
      << <<"other", "=", "t1">>, <<"fairOS-dfs", "=", "t2">> >> }

ConnectError ==
    [connected |-> FALSE, status |-> 0, set_cookie |-> <<>>, body |-> GarbageBody]

Responses ==
    [connected : {TRUE}, status : Statuses, set_cookie : SetCookieSamples, body : Bodies]

\* The outcomes of `self.http_client.request(req).await`.
NetReplies == {ConnectError} \cup Responses

----------------------------------------------------------------------------
(* client.rs: the session store *)

\* cookie that answers with the token of another stored user where there is one.
cookie_of_any_user(cs, username) ==
    IF username \notin DOMAIN cs THEN None
    ELSE IF DOMAIN cs = {username} THEN Some(cs[username])
    ELSE Some(cs[CHOOSE other \in DOMAIN cs : other # username])

cookie(cs, username) ==
    IF username \in DOMAIN cs THEN Some(cs[username]) ELSE None

\* set_cookie that keeps the token a username already has.
set_cookie_keep_first(cs, username, c) ==
    [u \in (DOMAIN cs) \cup {username} |-> IF u \in DOMAIN cs THEN cs[u] ELSE c]

set_cookie(cs, username, c) ==
    [u \in (DOMAIN cs) \cup {username} |-> IF u = username THEN c ELSE cs[u]]

remove_cookie(cs, username) ==
    [u \in (DOMAIN cs) \ {username} |-> cs[u]]

new_with_url == [u \in {} |-> <<>>]

----------------------------------------------------------------------------
(* client.rs: the transport *)

\* is_status_ok with the upper limit included.
is_status_ok_upto300(status) == status >= 200 /\ status <= 300

is_status_ok(status) == status >= 200 /\ status < 300

\* str::split: the pieces of s between the occurrences of sep (at least one piece).
RECURSIVE SplitAcc(_, _, _)
SplitAcc(s, sep, cur) ==
    IF s = <<>> THEN <<cur>>
    ELSE IF Head(s) = sep THEN <<cur>> \o SplitAcc(Tail(s), sep, <<>>)
    ELSE SplitAcc(Tail(s), sep, Append(cur, Head(s)))

Split(s, sep) == SplitAcc(s, sep, <<>>)

\* format!("fairOS-dfs={}", cookie)
CookieHeader(c) == <<"fairOS-dfs", "=">> \o c

\* The requests get, post and delete build.
get_request(path, c) ==
    [method |-> "GET", path |-> path,
     cookie |-> IF c # None THEN Some(CookieHeader(c[1])) ELSE None]

\* post_request that never attaches the Cookie header.
post_request_no_cookie(path, c) == [method |-> "POST", path |-> path, cookie |-> None]

post_request(path, c) ==
    [method |-> "POST", path |-> path,
     cookie |-> IF c # None THEN Some(CookieHeader(c[1])) ELSE None]

delete_request(path, c) ==
    [method |-> "DELETE", path |-> path, cookie |-> Some(CookieHeader(c))]

\* Send that sends the request a second time.
Send_twice(requests, req) == Append(Append(requests, req), req)

\* self.http_client.request(req): one request goes out on the wire.
Send(requests, req) == Append(requests, req)

\* What a transport call hands to its caller.
RequestOk(des, c) == [kind |-> "Ok", payload |-> <<des>>, cookie |-> c]
RequestCouldNotConnect == [kind |-> "CouldNotConnect", payload |-> <<>>, cookie |-> None]
RequestMessage(res) == [kind |-> "Message", payload |-> <<res.message>>, cookie |-> None]
RequestPanic == [kind |-> "Panic", payload |-> <<>>, cookie |-> None]
NoRequestResult == [kind |-> "None", payload |-> <<>>, cookie |-> None]

\* serde_json::from_slice::<T>(&buf): does the body have the shape of T
Decodes(body, ty) ==
    IF ty = "MessageResponse" THEN body.kind = "envelope" ELSE body.kind = "data"

\* The body of a classified response: decoded as T, or as the error envelope.
Classify(reply, ty, c) ==
    IF is_status_ok(reply.status)
    THEN IF Decodes(reply.body, ty) THEN RequestOk(reply.body, c) ELSE RequestPanic
    ELSE IF Decodes(reply.body, "MessageResponse")
         THEN RequestMessage(reply.body)
         ELSE RequestPanic

\* post, lines 129-141: the token of the first Set-Cookie header.
SetCookieToken(headers) ==
    IF headers = <<>> THEN [panic |-> FALSE, cookie |-> None]
    ELSE LET cookie_str == headers[1]
             split == Split(Split(cookie_str, ";")[1], "=")
         IN  IF \E i \in 1..Len(cookie_str) : cookie_str[i] = ObsText
             THEN [panic |-> TRUE, cookie |-> None]
             ELSE IF Len(split) < 2 THEN [panic |-> TRUE, cookie |-> None]
             ELSE IF split[1] = <<"fairOS-dfs">>
                  THEN [panic |-> FALSE, cookie |-> Some(split[2])]
                  ELSE [panic |-> FALSE, cookie |-> None]

get(reply, ty) ==
    IF ~reply.connected THEN RequestCouldNotConnect
    ELSE Classify(reply, ty, None)

post(reply, ty) ==
    IF ~reply.connected THEN RequestCouldNotConnect
    ELSE LET c == SetCookieToken(reply.set_cookie)
         IN  IF c.panic THEN RequestPanic ELSE Classify(reply, ty, c.cookie)

delete(reply, ty) ==
    IF ~reply.connected THEN RequestCouldNotConnect
    ELSE Classify(reply, ty, None)

----------------------------------------------------------------------------
(* error.rs *)

NoError == [kind |-> "None", variant |-> "None"]
CouldNotConnect == [kind |-> "CouldNotConnect", variant |-> "None"]
FairOSError(domain, variant) == [kind |-> domain, variant |-> variant]

Ok == [kind |-> "Ok", error |-> NoError]
Err(e) == [kind |-> "Err", error |-> e]
Panic == [kind |-> "Panic", error |-> NoError]
Pending == [kind |-> "Pending", error |-> NoError]

----------------------------------------------------------------------------
(* The record of the operation invoked last *)

IdleCall ==
    [op |-> "none", username |-> "none", phase |-> "idle", before |-> new_with_url,
     supplied |-> None, requests |-> <<>>, head |-> None, reply |-> None,
     transport |-> NoRequestResult, result |-> Pending]

\* The most calls the model follows while they await their reply, besides `call`.
MaxSuspended == 1

\* The methods that take `&mut self`.
MutSelfOps ==
    {"signup", "login", "import_with_address", "import_with_mnemonic", "delete_user", "logout"}

\* A method can be called while calls of `&self` methods on the Client are
\* awaiting their reply, and after a call that panicked (the Client is as it
\* was); the future of a `&mut self` method keeps every other call out until it
\* has returned.
CanInvoke ==
    \/ call.phase # "awaiting"
    \/ call.op \notin MutSelfOps /\ BagCardinality(suspended) < MaxSuspended

\* The calls awaiting their reply once another call has started.  Two calls with
\* the same arguments at the same point are two futures: both are kept.
Park == IF call.phase = "awaiting" THEN suspended (+) SetToBag({call}) ELSE suspended

\* ExclusiveAccess without the borrow rule.
ExclusiveAccess_unchecked == TRUE

\* A KeyValueSeek and a call that is awaiting its reply hold `&'a Client`: while
\* one lives no `&mut self` method of that Client can be called.
ExclusiveAccess == stream = None /\ call.phase # "awaiting" /\ suspended = EmptyBag

\* The operation handed the token c (an Option) to the transport call, which built
\* req, sent it and is suspended at `.await`.
Invoke(op, username, c, req) ==
    /\ call' = [op |-> op, username |-> username, phase |-> "awaiting", before |-> cookies,
                supplied |-> c, requests |-> Send(<<>>, req), head |-> None, reply |-> None,
                transport |-> NoRequestResult, result |-> Pending]
    /\ suspended' = Park

\* `self.cookie(username).unwrap()` on None: the operation panics before any request.
PanicAtCall(op, username) ==
    /\ call' = [op |-> op, username |-> username, phase |-> "done", before |-> cookies,
                supplied |-> None, requests |-> <<>>, head |-> None, reply |-> None,
                transport |-> NoRequestResult, result |-> Panic]
    /\ suspended' = Park

Return(reply, r, result) ==
    call' = [call EXCEPT !.phase = "done", !.head = None, !.reply = Some(reply),
                         !.transport = r, !.result = result]

\* The future of op is polled, and what it waits for has arrived.
Resuming(op) == call.phase = "awaiting" /\ call.op = op

\* What get, post and delete keep of `res` when they await its body: status_ok,
\* and in post the cookie of lines 129-141.
HeadOf(reply) ==
    [status_ok |-> is_status_ok(reply.status),
     cookie |-> IF call.requests[1].method = "POST"
                THEN SetCookieToken(reply.set_cookie).cookie
                ELSE None]

\* post, lines 129-141, run before the body is awaited: a Set-Cookie header that
\* makes them panic ends the call there.
PanicsAtHead(reply) ==
    call.requests[1].method = "POST" /\ SetCookieToken(reply.set_cookie).panic

\* The replies of net that let this poll run the call to its end.  A call that
\* waits at `request(req).await` ends with a connection error, with a panic on
\* the headers, or with a response whose body is there when `to_bytes(res)` is
\* polled first; a call that waits at `to_bytes(res).await` ends with the body
\* of a response whose head gave it what it keeps.
Completing(net) ==
    IF call.head = None THEN net
    ELSE {reply \in net :
            reply.connected /\ ~PanicsAtHead(reply) /\ HeadOf(reply) = call.head[1]}

\* What the call keeps of the heads of net after which it waits a second time,
\* at `hyper::body::to_bytes(res).await`.
BodyAwaited(net) ==
    IF call.head # None THEN {}
    ELSE {HeadOf(reply) : reply \in {x \in net : x.connected /\ ~PanicsAtHead(x)}}

\* A poll at which the response has arrived without its body: the call has read
\* the head and its future returns Pending again.
AwaitBody(net) ==
    /\ \E head \in BodyAwaited(net) : call' = [call EXCEPT !.head = Some(head)]
    /\ UNCHANGED <<cookies, trace, stream, polls, server, expr, applied, suspended>>

\* The executor turns to a call that was left awaiting: that call's future is the
\* one polled next.
poll_suspended ==
    /\ \E other \in BagToSet(suspended) :
         /\ call' = other
         /\ suspended' = Park (-) SetToBag({other})
    /\ UNCHANGED <<cookies, trace, stream, polls, server, expr, applied>>

----------------------------------------------------------------------------
(* The shapes the operations share *)

\* MapErr with both arms giving the error of the domain.
MapErr_domain_only(err, domain) == FairOSError(domain, "Error")

\* .map_err(|err| match err { CouldNotConnect => .., Message(_) => <Domain>(Error) })
MapErr(err, domain) ==
    IF err.kind = "CouldNotConnect" THEN CouldNotConnect
    ELSE FairOSError(domain, "Error")

Outcome(r, e) ==
    IF r.kind = "Panic" THEN Panic
    ELSE IF r.kind = "Ok" THEN Ok
    ELSE Err(e)

\* An operation without a session: post(path, data, None) / get(path, query, None).
UnauthCall(op, username, req) ==
    /\ Invoke(op, username, None, req)
    /\ UNCHANGED <<cookies, trace, stream, polls, server, expr, applied>>

\* let cookie = self.cookie(username).unwrap(); then the request with that cookie.
AuthPostCall(op, username, path) ==
    /\ IF cookie(cookies, username) = None
       THEN PanicAtCall(op, username)
       ELSE Invoke(op, username, cookie(cookies, username),
                   post_request(path, cookie(cookies, username)))
    /\ UNCHANGED <<cookies, trace, stream, polls, server, expr, applied>>

AuthGetCall(op, username, path) ==
    /\ IF cookie(cookies, username) = None
       THEN PanicAtCall(op, username)
       ELSE Invoke(op, username, cookie(cookies, username),
                   get_request(path, cookie(cookies, username)))
    /\ UNCHANGED <<cookies, trace, stream, polls, server, expr, applied>>

AuthDeleteCall(op, username, path) ==
    /\ IF cookie(cookies, username) = None
       THEN PanicAtCall(op, username)
       ELSE Invoke(op, username, cookie(cookies, username),
                   delete_request(path, cookie(cookies, username)[1]))
    /\ UNCHANGED <<cookies, trace, stream, polls, server, expr, applied>>

\* AuthPostResume that stores the token of the response.
AuthPostResume_refresh(ty, domain) ==
    \/ AwaitBody(NetReplies)
    \/ /\ \E reply \in Completing(NetReplies) :
            LET r == post(reply, ty)
            IN  /\ Return(reply, r, Outcome(r, MapErr(r, domain)))
                /\ cookies' = IF r.kind = "Ok" /\ r.cookie # None
                              THEN set_cookie(cookies, call.username, r.cookie[1])
                              ELSE cookies
       /\ UNCHANGED <<trace, stream, polls, server, expr, applied, suspended>>

\* A `&self` operation resumes from post: the token of the response is dropped.
AuthPostResume(ty, domain) ==
    \/ AwaitBody(NetReplies)
    \/ /\ \E reply \in Completing(NetReplies) :
            LET r == post(reply, ty)
            IN  Return(reply, r, Outcome(r, MapErr(r, domain)))
       /\ UNCHANGED <<cookies, trace, stream, polls, server, expr, applied, suspended>>

GetResume(ty, domain) ==
    \/ AwaitBody(NetReplies)
    \/ /\ \E reply \in Completing(NetReplies) :
            LET r == get(reply, ty)
            IN  Return(reply, r, Outcome(r, MapErr(r, domain)))
       /\ UNCHANGED <<cookies, trace, stream, polls, server, expr, applied, suspended>>

DeleteResume(ty, domain) ==
    \/ AwaitBody(NetReplies)
    \/ /\ \E reply \in Completing(NetReplies) :
            LET r == delete(reply, ty)
            IN  Return(reply, r, Outcome(r, MapErr(r, domain)))
       /\ UNCHANGED <<cookies, trace, stream, polls, server, expr, applied, suspended>>

----------------------------------------------------------------------------
(* user.rs *)

signup_map_err(err) ==
    IF err.kind = "CouldNotConnect" THEN CouldNotConnect
    ELSE IF err.payload[1] = "user signup: user name already present"
         THEN FairOSError("User", "UsernameAlreadyExists")
         ELSE FairOSError("User", "Error")

\* login_map_err with the generic error for every message.
login_map_err_generic(err) ==
    IF err.kind = "CouldNotConnect" THEN CouldNotConnect
    ELSE FairOSError("User", "Error")

login_map_err(err) ==
    IF err.kind = "CouldNotConnect" THEN CouldNotConnect
    ELSE IF err.payload[1] = "user login: invalid user name"
         THEN FairOSError("User", "InvalidUsername")
         ELSE IF err.payload[1] = "user login: invalid password"
              THEN FairOSError("User", "InvalidPassword")
              ELSE FairOSError("User", "Error")

import_map_err(err) == MapErr(err, "User")

\* The map_err closure of the operation op.
open_session_map_err(op, err) ==
    IF op = "signup" THEN signup_map_err(err)
    ELSE IF op = "login" THEN login_map_err(err)
    ELSE import_map_err(err)

\* OpenSessionResume that stores the token of a rejected response too.
OpenSessionResume_store_on_error(ty, op) ==
    \/ AwaitBody(NetReplies)
    \/ /\ \E reply \in Completing(NetReplies) :
            LET r == post(reply, ty)
            IN  IF r.kind = "Ok"
                THEN IF r.cookie = None
                     THEN Return(reply, r, Panic) /\ UNCHANGED cookies
                     ELSE /\ cookies' = set_cookie(cookies, call.username, r.cookie[1])
                          /\ Return(reply, r, Ok)
                ELSE /\ Return(reply, r, Outcome(r, open_session_map_err(op, r)))
                     /\ cookies' = IF r.kind = "Message"
                                       /\ SetCookieToken(reply.set_cookie).cookie # None
                                   THEN set_cookie(cookies, call.username,
                                                   SetCookieToken(reply.set_cookie).cookie[1])
                                   ELSE cookies
       /\ UNCHANGED <<trace, stream, polls, server, expr, applied, suspended>>

\* signup, login, import_*: self.set_cookie(username, cookie.unwrap()) after `?`.
OpenSessionResume(ty, op) ==
    \/ AwaitBody(NetReplies)
    \/ /\ \E reply \in Completing(NetReplies) :
            LET r == post(reply, ty)
            IN  IF r.kind = "Ok"
                THEN IF r.cookie = None
                     THEN Return(reply, r, Panic) /\ UNCHANGED cookies
                     ELSE /\ cookies' = set_cookie(cookies, call.username, r.cookie[1])
                          /\ Return(reply, r, Ok)
                ELSE /\ Return(reply, r, Outcome(r, open_session_map_err(op, r)))
                     /\ UNCHANGED cookies
       /\ UNCHANGED <<trace, stream, polls, server, expr, applied, suspended>>

signup(username) ==
    /\ CanInvoke
    /\ ExclusiveAccess
    /\ UnauthCall("signup", username, post_request("/user/signup", None))

signup_resume ==
    /\ Resuming("signup")
    /\ OpenSessionResume("UserSignupResponse", "signup")

login(username) ==
    /\ CanInvoke
    /\ ExclusiveAccess
    /\ UnauthCall("login", username, post_request("/user/login", None))

login_resume ==
    /\ Resuming("login")
    /\ OpenSessionResume("MessageResponse", "login")

import_with_address(username) ==
    /\ CanInvoke
    /\ ExclusiveAccess
    /\ UnauthCall("import_with_address", username, post_request("/user/import", None))

import_with_address_resume ==
    /\ Resuming("import_with_address")
    /\ OpenSessionResume("UserImportResponse", "import_with_address")

import_with_mnemonic(username) ==
    /\ CanInvoke
    /\ ExclusiveAccess
    /\ UnauthCall("import_with_mnemonic", username, post_request("/user/import", None))

import_with_mnemonic_resume ==
    /\ Resuming("import_with_mnemonic")
    /\ OpenSessionResume("UserImportResponse", "import_with_mnemonic")

delete_user(username) ==
    /\ CanInvoke
    /\ ExclusiveAccess
    /\ AuthDeleteCall("delete_user", username, "/user/delete")

delete_user_resume ==
    /\ Resuming("delete_user")
    /\ \/ AwaitBody(NetReplies)
       \/ /\ \E reply \in Completing(NetReplies) :
               LET r == delete(reply, "MessageResponse")
               IN  /\ Return(reply, r, Outcome(r, MapErr(r, "User")))
                   /\ cookies' = IF r.kind = "Ok"
                                 THEN remove_cookie(cookies, call.username)
                                 ELSE cookies
          /\ UNCHANGED <<trace, stream, polls, server, expr, applied, suspended>>

user_exists(username) ==
    /\ CanInvoke
    /\ UnauthCall("user_exists", username, get_request("/user/present", None))

user_exists_resume ==
    /\ Resuming("user_exists")
    /\ GetResume("UserPresentResponse", "User")

is_logged_in(username) ==
    /\ CanInvoke
    /\ UnauthCall("is_logged_in", username, get_request("/user/isloggedin", None))

is_logged_in_resume ==
    /\ Resuming("is_logged_in")
    /\ GetResume("UserIsLoggedInResponse", "User")

logout(username) ==
    /\ CanInvoke
    /\ ExclusiveAccess
    /\ AuthPostCall("logout", username, "/user/logout")

\* logout_resume that removes the token whatever the answer was.
logout_resume_always_remove ==
    /\ Resuming("logout")
    /\ \/ AwaitBody(NetReplies)
       \/ /\ \E reply \in Completing(NetReplies) :
               LET r == post(reply, "MessageResponse")
               IN  /\ Return(reply, r, Outcome(r, MapErr(r, "User")))
                   /\ cookies' = remove_cookie(cookies, call.username)
          /\ UNCHANGED <<trace, stream, polls, server, expr, applied, suspended>>

logout_resume ==
    /\ Resuming("logout")
    /\ \/ AwaitBody(NetReplies)
       \/ /\ \E reply \in Completing(NetReplies) :
               LET r == post(reply, "MessageResponse")
               IN  /\ Return(reply, r, Outcome(r, MapErr(r, "User")))
                   /\ cookies' = IF r.kind = "Ok"
                                 THEN remove_cookie(cookies, call.username)
                                 ELSE cookies
          /\ UNCHANGED <<trace, stream, polls, server, expr, applied, suspended>>

export_user(username) ==
    /\ CanInvoke
    /\ AuthPostCall("export_user", username, "/user/export")

export_user_resume ==
    /\ Resuming("export_user")
    /\ AuthPostResume("UserExportResponse", "User")

user_info(username) ==
    /\ CanInvoke
    /\ AuthGetCall("user_info", username, "/user/stat")

user_info_resume ==
    /\ Resuming("user_info")
    /\ GetResume("UserStatResponse", "User")

----------------------------------------------------------------------------
(* pod.rs, filesystem.rs, kv.rs, doc.rs *)

create_pod(username) ==
    /\ CanInvoke
    /\ AuthPostCall("create_pod", username, "/pod/new")

create_pod_resume ==
    /\ Resuming("create_pod")
    /\ AuthPostResume("MessageResponse", "Pod")

delete_pod(username) ==
    /\ CanInvoke
    /\ AuthDeleteCall("delete_pod", username, "/pod/delete")

delete_pod_resume ==
    /\ Resuming("delete_pod")
    /\ DeleteResume("MessageResponse", "Pod")

mkdir(username) ==
    /\ CanInvoke
    /\ AuthPostCall("mkdir", username, "/dir/mkdir")

mkdir_resume ==
    /\ Resuming("mkdir")
    /\ AuthPostResume("MessageResponse", "FileSystem")

kv_put_entry(username) ==
    /\ CanInvoke
    /\ AuthPostCall("kv_put_entry", username, "/kv/entry/put")

kv_put_entry_resume ==
    /\ Resuming("kv_put_entry")
    /\ AuthPostResume("MessageResponse", "KeyValue")

open_doc_database(username) ==
    /\ CanInvoke
    /\ AuthPostCall("open_doc_database", username, "/doc/open")

open_doc_database_resume ==
    /\ Resuming("open_doc_database")
    /\ AuthPostResume("MessageResponse", "Document")

----------------------------------------------------------------------------
(* kv.rs: kv_seek and the KeyValueSeek stream *)

\* A request with the query or the JSON body it carries.
WithData(req, data) ==
    [method |-> req.method, path |-> req.path, cookie |-> req.cookie, data |-> data]

\* The most polls of one stream the model follows.
MaxPolls == 4

\* The table the seek scenario stores, in ascending key order.
Table ==
    << [key |-> "abc", value |-> "def"], [key |-> "bcd", value |-> "efg"],
       [key |-> "cde", value |-> "fgh"], [key |-> "def", value |-> "ghi"] >>

KeyIndex(k) == CHOOSE i \in 1..Len(Table) : Table[i].key = k

\* The arguments kv_seek is called with: start_key, end_key, limit.
SeekArgs ==
    { [start_key |-> "bcd", end_key |-> None, limit |-> None],
      [start_key |-> "abc", end_key |-> None, limit |-> Some(2)],
      [start_key |-> "bcd", end_key |-> Some("def"), limit |-> Some(2147483647)],
      [start_key |-> "def", end_key |-> None, limit |-> None] }

NoArgs == [start_key |-> "", end_key |-> None, limit |-> None]

Least(a, b) == IF a < b THEN a ELSE b

\* The cursor the server sets up for a seek: the stored pairs from the start key
\* on, before the end key if there is one, at most limit of them if there is one.
Cursor(args) ==
    LET first == KeyIndex(args.start_key)
        last == IF args.end_key = None THEN Len(Table) ELSE KeyIndex(args.end_key[1]) - 1
        pairs == SubSeq(Table, first, last)
    IN  IF args.limit = None THEN pairs
        ELSE SubSeq(pairs, 1, Least(args.limit[1], Len(pairs)))

\* The server hands out the pair under the cursor and moves the cursor on, for
\* every /kv/seek/next request it receives.
Advance(cur) == IF cur = <<>> THEN <<>> ELSE Tail(cur)

\* A KvEntryGetResponse body.
EntryBody(keys, values) ==
    [kind |-> "data", message |-> "", code |-> 0, keys |-> keys, values |-> values]
SeekErrorBody ==
    [kind |-> "envelope", message |-> "other", code |-> 500, keys |-> <<>>, values |-> ""]
SeekGarbageBody ==
    [kind |-> "garbage", message |-> "", code |-> 0, keys |-> <<>>, values |-> ""]

NextReply(status, body) ==
    [connected |-> TRUE, status |-> status, set_cookie |-> <<>>, body |-> body]
NextConnectError ==
    [connected |-> FALSE, status |-> 0, set_cookie |-> <<>>, body |-> SeekGarbageBody]

\* What the server answers to /kv/seek/next with its cursor at cur.
ServerReply(cur) ==
    IF cur = <<>> THEN NextReply(500, SeekErrorBody)
    ELSE NextReply(200, EntryBody(<<Head(cur).key>>, Head(cur).value))

\* Replies that do not come from the cursor: the network fails, the server
\* rejects the request, or the body is not what the cursor holds.
FaultyReplies ==
    { NextConnectError,
      NextReply(199, SeekErrorBody),
      NextReply(300, SeekErrorBody),
      NextReply(300, SeekGarbageBody),
      NextReply(299, SeekGarbageBody),
      NextReply(200, EntryBody(<<>>, "efg")),
      NextReply(299, EntryBody(<<"bcd", "cde">>, "efg")) }

\* One poll of a request future that was created in this poll_next: it is still
\* waiting (the request is on the wire by then, or it is not; with it on the
\* wire the future waits for the response or for its body), or it is ready with
\* the reply.  In either case the future is dropped when poll_next returns.
PollOutcomes(cur) ==
    { [ready |-> FALSE, written |-> FALSE, reply |-> NextConnectError, honest |-> TRUE],
      [ready |-> FALSE, written |-> TRUE, reply |-> NextConnectError, honest |-> TRUE],
      [ready |-> TRUE, written |-> TRUE, reply |-> ServerReply(cur), honest |-> TRUE] }
        \cup {[ready |-> TRUE, written |-> r.connected, reply |-> r, honest |-> FALSE] :
                 r \in FaultyReplies}

\* The replies to the setup call POST /kv/seek.
SeekReplies ==
    { ConnectError,
      [connected |-> TRUE, status |-> 200, set_cookie |-> <<>>, body |-> Envelope("other", 400)],
      [connected |-> TRUE, status |-> 299,
       set_cookie |-> << <<"fairOS-dfs", "=", "t2">> >>, body |-> Envelope("other", 400)],
      [connected |-> TRUE, status |-> 300, set_cookie |-> <<>>, body |-> Envelope("other", 500)],
      [connected |-> TRUE, status |-> 199, set_cookie |-> <<>>, body |-> Envelope("other", 400)],
      [connected |-> TRUE, status |-> 200, set_cookie |-> <<>>, body |-> GarbageBody] }

\* The struct KeyValueSeek (its client field is the Client of this model).
KeyValueSeek(username, limit) ==
    [username |-> username, pod_name |-> "pod", table_name |-> "table", limit |-> limit]

NoPolls ==
    [args |-> NoArgs, setup |-> None, count |-> 0, last |-> "None", pull |-> <<>>,
     delivered |-> <<>>, honest |-> TRUE]

\* kv_seek_stream that returns a stream whatever the setup call gave.
kv_seek_stream_unchecked(r, username, limit) == Some(KeyValueSeek(username, limit))

\* The value kv_seek returns after `?`: Ok(KeyValueSeek { .. }) if post gave Ok.
kv_seek_stream(r, username, limit) ==
    IF r.kind = "Ok" THEN Some(KeyValueSeek(username, limit)) ELSE None

kv_seek_data(args) ==
    [pod_name |-> "pod", table_name |-> "table", start_prefix |-> args.start_key,
     end_prefix |-> args.end_key, limit |-> args.limit]

\* The range and limit a /kv/seek body asks for.
seek_args(data) ==
    [start_key |-> data.start_prefix, end_key |-> data.end_prefix, limit |-> data.limit]

\* kv_seek up to `.await`.  The model follows one stream at a time.
kv_seek(username, args) ==
    /\ CanInvoke
    /\ stream = None
    /\ IF cookie(cookies, username) = None
       THEN /\ PanicAtCall("kv_seek", username)
            /\ polls' = [NoPolls EXCEPT !.args = args]
       ELSE /\ Invoke("kv_seek", username, cookie(cookies, username),
                      WithData(post_request("/kv/seek", cookie(cookies, username)),
                               kv_seek_data(args)))
            /\ polls' = [NoPolls EXCEPT !.args = args,
                                        !.setup = Some(CookieHeader(cookies[username]))]
    /\ UNCHANGED <<cookies, trace, stream, server, expr, applied>>

kv_seek_resume ==
    /\ Resuming("kv_seek")
    /\ \/ AwaitBody(SeekReplies)
       \/ /\ \E reply \in Completing(SeekReplies) :
               LET r == post(reply, "MessageResponse")
               IN  /\ Return(reply, r, Outcome(r, MapErr(r, "KeyValue")))
                   /\ stream' = kv_seek_stream(r, call.username, call.requests[1].data.limit)
                   /\ server' = IF reply.connected /\ reply.status \in 200..299
                                THEN Cursor(seek_args(call.requests[1].data))
                                ELSE <<>>
          /\ UNCHANGED <<cookies, trace, polls, expr, applied, suspended>>

\* The request poll_next builds: get("/kv/seek/next", query, Some(cookie)).
next_request(s, c) ==
    WithData(get_request("/kv/seek/next", c),
             [pod_name |-> s.pod_name, table_name |-> s.table_name])

\* PollResult that hands the error of the request to the consumer.
PollResult_surface(ready, r) ==
    IF ~ready THEN "Pending"
    ELSE IF r.kind = "Panic" THEN "Panic"
    ELSE IF r.kind = "Ok"
         THEN IF r.payload[1].keys = <<>> THEN "Panic" ELSE "Item"
         ELSE "Error"

\* The match of poll_next on the poll of the request future: Pending,
\* Ready(Some((key, values))) ("Item"), Ready(None) ("End"), or a panic.
PollResult(ready, r) ==
    IF ~ready THEN "Pending"
    ELSE IF r.kind = "Panic" THEN "Panic"
    ELSE IF r.kind = "Ok"
         THEN IF r.payload[1].keys = <<>> THEN "Panic" ELSE "Item"
         ELSE "End"

\* The record of the polls after one more poll_next that built req and met o.
\* pull lists the requests built since the last item (or since construction).
Polled(p, req, o) ==
    LET r == get(o.reply, "KvEntryGetResponse")
        res == PollResult(o.ready, r)
        entry == [request |-> req, written |-> o.written,
                  state |-> IF o.ready THEN "completed" ELSE "dropped",
                  reply |-> IF o.ready THEN Some(o.reply) ELSE None]
    IN  [p EXCEPT !.count = @ + 1,
                  !.last = res,
                  !.pull = Append(IF p.last = "Item" THEN <<>> ELSE p.pull, entry),
                  !.delivered = IF res = "Item"
                                THEN Append(@, <<r.payload[1].keys[1], r.payload[1].values>>)
                                ELSE @,
                  !.honest = @ /\ o.honest]

\* One call of poll_next by the consumer, which stops at the end of the sequence.
poll_next ==
    /\ stream # None
    /\ polls.last \notin {"End", "Panic", "NoSession"}
    /\ polls.count < MaxPolls
    /\ IF cookie(cookies, stream[1].username) = None
       THEN /\ polls' = [polls EXCEPT !.count = @ + 1, !.last = "NoSession"]
            /\ UNCHANGED server
       ELSE \E o \in PollOutcomes(server) :
              /\ polls' = Polled(polls,
                                 next_request(stream[1], cookie(cookies, stream[1].username)),
                                 o)
              /\ server' = IF o.written THEN Advance(server) ELSE server
    /\ UNCHANGED <<cookies, call, trace, stream, expr, applied, suspended>>

\* poll_next_after_end of a stream that remembers it has ended: None again, and
\* no request.
poll_next_after_end_fused ==
    /\ stream # None
    /\ polls.last = "End"
    /\ polls.count < MaxPolls
    /\ polls' = [polls EXCEPT !.count = @ + 1]
    /\ UNCHANGED <<cookies, call, trace, stream, server, expr, applied, suspended>>

\* One call of poll_next by a consumer that polls again after the stream
\* returned None: the same function, which keeps nothing from the earlier polls.
poll_next_after_end ==
    /\ stream # None
    /\ polls.last = "End"
    /\ polls.count < MaxPolls
    /\ IF cookie(cookies, stream[1].username) = None
       THEN /\ polls' = [polls EXCEPT !.count = @ + 1, !.last = "NoSession"]
            /\ UNCHANGED server
       ELSE \E o \in PollOutcomes(server) :
              /\ polls' = Polled(polls,
                                 next_request(stream[1], cookie(cookies, stream[1].username)),
                                 o)
              /\ server' = IF o.written THEN Advance(server) ELSE server
    /\ UNCHANGED <<cookies, call, trace, stream, expr, applied, suspended>>

\* The consumer lets go of the stream: the borrow of the Client ends.
drop_stream ==
    /\ stream # None
    /\ stream' = None
    /\ polls' = NoPolls
    /\ server' = <<>>
    /\ UNCHANGED <<cookies, call, trace, expr, applied, suspended>>

\* size_hint that reports no upper bound.
size_hint_unbounded(s) == <<0, None>>

size_hint(s) == IF s.limit # None THEN <<0, Some(s.limit[1])>> ELSE <<0, None>>

----------------------------------------------------------------------------
(* doc.rs: expressions and the operations that compile one *)

Fields == {<<"n">>, <<"s">>}

Str(s) == [kind |-> "Str", s |-> s, n |-> 0]
Number(n) == [kind |-> "Number", s |-> <<>>, n |-> n]
Map == [kind |-> "Map", s |-> <<>>, n |-> 0]

\* The ExprValue values explored; the numbers are u32 (the largest here is 2^31 - 1).
ExprValues ==
    {Str(<<"a">>), Str(<<"b">>), Str(<<>>), Map}
        \cup {Number(n) : n \in {0, 9, 10, 2147483647}}

All == [op |-> "All"]
Cmp(op, field, value) == [op |-> op, field |-> field, value |-> value]
Junction(op, a, b) == [op |-> op, a |-> a, b |-> b]

CmpOps == {"Eq", "Gt", "Gte", "Lt", "Lte"}

ExprCmps == {Cmp(op, f, v) : op \in CmpOps, f \in Fields, v \in ExprValues}

ExprJunctions ==
    {Junction(op, a, b) :
        op \in {"And", "Or"},
        a \in {All, Cmp("Gt", <<"n">>, Number(9))},
        b \in {All, Cmp("Eq", <<"s">>, Str(<<"a">>))}}

Exprs == {All} \cup ExprCmps \cup ExprJunctions

\* What a to_string call gives: a String, or the panic of unimplemented!().
Compiled(string) == [panic |-> FALSE, string |-> string]
Unimplemented == [panic |-> TRUE, string |-> <<>>]
NotCompiled == [panic |-> FALSE, string |-> <<"<not compiled>">>]

\* u32::to_string: the decimal digits of n, the most significant first.
Digit(d) == <<"0", "1", "2", "3", "4", "5", "6", "7", "8", "9">>[d + 1]

RECURSIVE Digits(_)
Digits(n) ==
    IF n < 10 THEN <<Digit(n)>> ELSE Append(Digits(n \div 10), Digit(n % 10))

ExprValue_to_string(value) ==
    IF value.kind = "Str" THEN Compiled(<<"%22">> \o value.s \o <<"%22">>)
    ELSE IF value.kind = "Number" THEN Compiled(Digits(value.n))
    ELSE Unimplemented

\* format!("{}<sign>{}", left, right) with the texts of the two operands.
Format(left, sign, right) == Compiled(left \o sign \o right)

\* Expr_to_string with Lt and Lte written in the order of Gt and Gte.
Expr_to_string_same_order(e) ==
    IF e.op = "All" THEN Compiled(<<>>)
    ELSE IF e.op \in {"And", "Or"} THEN Unimplemented
    ELSE LET v == ExprValue_to_string(e.value)
         IN  IF v.panic THEN Unimplemented
             ELSE IF e.op = "Eq" THEN Format(e.field, <<"=">>, v.string)
             ELSE IF e.op \in {"Gt", "Lt"} THEN Format(e.field, <<"%3e">>, v.string)
             ELSE Format(e.field, <<"%3e", "=">>, v.string)

\* Expr_to_string with the sign of Gt for Gte.
Expr_to_string_gte_as_gt(e) ==
    IF e.op = "All" THEN Compiled(<<>>)
    ELSE IF e.op \in {"And", "Or"} THEN Unimplemented
    ELSE LET v == ExprValue_to_string(e.value)
         IN  IF v.panic THEN Unimplemented
             ELSE IF e.op = "Eq" THEN Format(e.field, <<"=">>, v.string)
             ELSE IF e.op \in {"Gt", "Gte"} THEN Format(e.field, <<"%3e">>, v.string)
             ELSE IF e.op = "Lt" THEN Format(v.string, <<"%3e">>, e.field)
             ELSE Format(v.string, <<"%3e", "=">>, e.field)

\* Expr_to_string that compiles And and Or to the empty string.
Expr_to_string_junction_empty(e) ==
    IF e.op \in {"All", "And", "Or"} THEN Compiled(<<>>)
    ELSE LET v == ExprValue_to_string(e.value)
         IN  IF v.panic THEN Unimplemented
             ELSE IF e.op = "Eq" THEN Format(e.field, <<"=">>, v.string)
             ELSE IF e.op = "Gt" THEN Format(e.field, <<"%3e">>, v.string)
             ELSE IF e.op = "Gte" THEN Format(e.field, <<"%3e", "=">>, v.string)
             ELSE IF e.op = "Lt" THEN Format(v.string, <<"%3e">>, e.field)
             ELSE Format(v.string, <<"%3e", "=">>, e.field)

Expr_to_string(e) ==
    IF e.op = "All" THEN Compiled(<<>>)
    ELSE IF e.op \in {"And", "Or"} THEN Unimplemented
    ELSE LET v == ExprValue_to_string(e.value)
         IN  IF v.panic THEN Unimplemented
             ELSE IF e.op = "Eq" THEN Format(e.field, <<"=">>, v.string)
             ELSE IF e.op = "Gt" THEN Format(e.field, <<"%3e">>, v.string)
             ELSE IF e.op = "Gte" THEN Format(e.field, <<"%3e", "=">>, v.string)
             ELSE IF e.op = "Lt" THEN Format(v.string, <<"%3e">>, e.field)
             ELSE Format(v.string, <<"%3e", "=">>, e.field)

\* The caller of to_string: the expression it passed and what it got.
NoExpr == [e |-> All, compiled |-> NotCompiled]

to_string ==
    /\ expr.compiled = NotCompiled
    /\ expr' = [expr EXCEPT !.compiled = Expr_to_string(expr.e)]
    /\ UNCHANGED <<cookies, call, trace, stream, polls, server, applied, suspended>>

\* The expressions find_documents and count_documents are called with.
DocExprs ==
    { All,
      Cmp("Gt", <<"n">>, Number(9)),
      Cmp("Lte", <<"s">>, Str(<<"a">>)),
      Cmp("Eq", <<"s">>, Map),
      Cmp("Lt", <<"n">>, Map),
      Junction("And", All, All),
      Junction("Or", Cmp("Gt", <<"n">>, Number(9)), Cmp("Eq", <<"s">>, Str(<<"a">>))) }

\* find_documents up to `.await`: expr.to_string(), then the cookie, then get.
find_documents(username, e) ==
    /\ CanInvoke
    /\ expr' = [e |-> e, compiled |-> Expr_to_string(e)]
    /\ IF Expr_to_string(e).panic \/ cookie(cookies, username) = None
       THEN PanicAtCall("find_documents", username)
       ELSE Invoke("find_documents", username, cookie(cookies, username),
                   WithData(get_request("/doc/find", cookie(cookies, username)),
                            [expr |-> Expr_to_string(e).string]))
    /\ UNCHANGED <<cookies, trace, stream, polls, server, applied>>

\* docs_decode: every doc of the body is base64 of a JSON T (else unwrap panics).
find_documents_resume ==
    /\ Resuming("find_documents")
    /\ \/ AwaitBody(NetReplies)
       \/ /\ \E reply \in Completing(NetReplies) : \E docs_decode \in BOOLEAN :
               LET r == get(reply, "DocFindResponse")
               IN  Return(reply, r,
                          IF r.kind = "Ok" /\ ~docs_decode THEN Panic
                          ELSE Outcome(r, MapErr(r, "Document")))
          /\ UNCHANGED <<cookies, trace, stream, polls, server, expr, applied, suspended>>

\* count_documents up to `.await`: json!({.. expr.to_string()}), the cookie, post.
count_documents(username, e) ==
    /\ CanInvoke
    /\ expr' = [e |-> e, compiled |-> Expr_to_string(e)]
    /\ IF Expr_to_string(e).panic \/ cookie(cookies, username) = None
       THEN PanicAtCall("count_documents", username)
       ELSE Invoke("count_documents", username, cookie(cookies, username),
                   WithData(post_request("/doc/count", cookie(cookies, username)),
                            [expr |-> Expr_to_string(e).string]))
    /\ UNCHANGED <<cookies, trace, stream, polls, server, applied>>

\* The replies to /doc/count: the message of a 2xx envelope is the count.
CountReplies ==
    NetReplies \cup
        {[connected |-> TRUE, status |-> 200, set_cookie |-> <<>>, body |-> Envelope("3", 200)]}

\* str::parse::<u32>() of the messages the replies hold.
ParsesAsU32(message) == message = "3"

count_documents_resume ==
    /\ Resuming("count_documents")
    /\ \/ AwaitBody(CountReplies)
       \/ /\ \E reply \in Completing(CountReplies) :
               LET r == post(reply, "MessageResponse")
               IN  Return(reply, r,
                          IF r.kind = "Ok" /\ ~ParsesAsU32(r.payload[1].message) THEN Panic
                          ELSE Outcome(r, MapErr(r, "Document")))
          /\ UNCHANGED <<cookies, trace, stream, polls, server, expr, applied, suspended>>

----------------------------------------------------------------------------
(* filesystem.rs: BlockSize *)

\* Unsigned integers of any width are little-endian sequences of 16-bit words
\* without leading zero words (zero is the empty sequence); a u32 is at most two
\* words and a u64 at most four.

RECURSIVE Trim(_)
Trim(x) ==
    IF x = <<>> THEN <<>>
    ELSE IF x[Len(x)] = 0 THEN Trim(SubSeq(x, 1, Len(x) - 1))
    ELSE x

\* x * m + c, for m and c below 2^15.
RECURSIVE MulAdd(_, _, _)
MulAdd(x, m, c) ==
    IF x = <<>>
    THEN IF c = 0 THEN <<>> ELSE <<c>>
    ELSE <<(Head(x) * m + c) % 65536>> \o MulAdd(Tail(x), m, (Head(x) * m + c) \div 65536)

\* The quotient words (not trimmed) and the remainder of x by d, for d below 2^15.
RECURSIVE DivRem(_, _)
DivRem(x, d) ==
    IF x = <<>> THEN [q |-> <<>>, r |-> 0]
    ELSE LET hi == DivRem(Tail(x), d)
             t == hi.r * 65536 + Head(x)
         IN  [q |-> <<t \div d>> \o hi.q, r |-> t % d]

Div(x, d) == Trim(DivRem(x, d).q)
Rem(x, d) == DivRem(x, d).r

\* x * 1000^k and floor(x / 1000^k).
RECURSIVE MulThousands(_, _)
MulThousands(x, k) == IF k = 0 THEN x ELSE MulThousands(MulAdd(x, 1000, 0), k - 1)

RECURSIVE DivThousands(_, _)
DivThousands(x, k) == IF k = 0 THEN x ELSE DivThousands(Div(x, 1000), k - 1)

\* x < y.
RECURSIVE Less(_, _)
Less(x, y) ==
    IF Len(x) # Len(y) THEN Len(x) < Len(y)
    ELSE IF x = <<>> THEN FALSE
    ELSE IF x[Len(x)] # y[Len(y)] THEN x[Len(x)] < y[Len(y)]
    ELSE Less(SubSeq(x, 1, Len(x) - 1), SubSeq(y, 1, Len(y) - 1))

\* A literal written in groups of three decimal digits: N(<<1, 500>>) is 1500.
RECURSIVE N(_)
N(groups) ==
    IF groups = <<>> THEN <<>>
    ELSE MulAdd(N(SubSeq(groups, 1, Len(groups) - 1)), 1000, groups[Len(groups)])

\* `as u32` and the wrap of u64 arithmetic: the low words.
Low(x, words) == Trim(SubSeq(x, 1, Least(words, Len(x))))
AsU32(x) == Low(x, 2)
FitsU32(x) == Len(x) <= 2
FitsU64(x) == Len(x) <= 4

Units == <<"Bytes", "Kilobytes", "Megabytes", "Gigabytes", "Terabytes">>
UnitSet == {Units[i] : i \in 1..Len(Units)}
\* The factor of a unit is 1000^Thousands(unit).
Thousands(unit) == (CHOOSE i \in 1..Len(Units) : Units[i] = unit) - 1
UnitLetter(unit) == <<"B", "K", "M", "G", "T">>[Thousands(unit) + 1]

BlockSize(unit, n) == [unit |-> unit, n |-> n]

\* The u32 magnitudes explored.
Magnitudes ==
    { N(<<0>>), N(<<1>>), N(<<999>>), N(<<1, 0>>), N(<<1, 500>>),
      N(<<4, 294, 967>>), N(<<4, 294, 968>>), N(<<5, 0, 0>>),
      N(<<18, 446, 744>>), N(<<18, 446, 745>>), N(<<4, 294, 967, 295>>) }

BlockSizes == {BlockSize(unit, n) : unit \in UnitSet, n \in Magnitudes}

\* A build either checks integer overflow (and panics on it) or wraps.
Builds == {"overflow-checks", "wrapping"}

Returned(value) == [panic |-> FALSE, value |-> value]
Panicked == [panic |-> TRUE, value |-> <<>>]

\* BlockSize::conversion; the divisor is 1000^divisor.
conversion(self, divisor, build) ==
    LET product == MulThousands(self.n, Thousands(self.unit))
    IN  IF ~FitsU64(product) /\ build = "overflow-checks" THEN Panicked
        ELSE Returned(AsU32(DivThousands(Low(product, 4), divisor)))

\* to_bytes, to_kilobytes, to_megabytes, to_gigabytes, to_terabytes.
ConvertTo(self, unit, build) ==
    LET c == conversion(self, Thousands(unit), build)
    IN  IF c.panic THEN Panicked ELSE Returned(BlockSize(unit, c.value))

\* u32::to_string of a number held in words.
RECURSIVE DecimalDigits(_)
DecimalDigits(x) ==
    IF x = <<>> THEN <<>>
    ELSE Append(DecimalDigits(Div(x, 10)), Digit(Rem(x, 10)))

U32_to_string(x) == IF x = <<>> THEN <<"0">> ELSE DecimalDigits(x)

\* impl ToString for BlockSize: format!("{}B", n) and so on.
BlockSize_to_string(self) == Append(U32_to_string(self.n), UnitLetter(self.unit))

DigitChars == {"0", "1", "2", "3", "4", "5", "6", "7", "8", "9"}
DigitValue(c) == CHOOSE d \in 0..9 : Digit(d) = c

RECURSIVE DecimalValue(_)
DecimalValue(chars) ==
    IF chars = <<>> THEN <<>>
    ELSE MulAdd(DecimalValue(SubSeq(chars, 1, Len(chars) - 1)), 10,
                DigitValue(chars[Len(chars)]))

\* str::parse::<u32>(): an optional '+', then one or more digits, within u32.
ParseU32(chars) ==
    LET digits == IF chars # <<>> /\ chars[1] = "+" THEN Tail(chars) ELSE chars
    IN  IF digits = <<>> \/ \E i \in 1..Len(digits) : digits[i] \notin DigitChars
        THEN None
        ELSE IF ~FitsU32(DecimalValue(digits)) THEN None
        ELSE Some(DecimalValue(digits))

ParsedOk(b) == [panic |-> FALSE, value |-> [ok |-> TRUE, block |-> <<b>>]]
ParsedErr == [panic |-> FALSE, value |-> [ok |-> FALSE, block |-> <<>>]]

\* from_str that reads every unit letter as B.
from_str_first_letter(s) ==
    IF s = <<>> THEN Panicked
    ELSE LET size == ParseU32(SubSeq(s, 1, Len(s) - 1))
         IN  IF size = None THEN Panicked
             ELSE ParsedOk(BlockSize("Bytes", size[1]))

\* impl FromStr for BlockSize.
from_str(s) ==
    IF s = <<>> THEN Panicked
    ELSE LET unit == s[Len(s)]
             size == ParseU32(SubSeq(s, 1, Len(s) - 1))
         IN  IF size = None THEN Panicked
             ELSE IF \E u \in UnitSet : UnitLetter(u) = unit
                  THEN ParsedOk(BlockSize(CHOOSE u \in UnitSet : UnitLetter(u) = unit, size[1]))
                  ELSE ParsedErr

\* The u64 byte counts explored.
ByteCounts ==
    { N(<<0>>), N(<<999>>), N(<<1, 0>>), N(<<1, 500>>), N(<<999, 999>>), N(<<1, 0, 0>>),
      N(<<999, 999, 999>>), N(<<1, 0, 0, 0>>), N(<<999, 999, 999, 999>>),
      N(<<1, 0, 0, 0, 0>>), N(<<4, 294, 967, 296>>), N(<<4, 294, 967, 296, 0, 0>>),
      N(<<18, 446, 744, 73, 709, 551, 615>>) }

\* from_u64 that never goes beyond Kilobytes.
from_u64_no_large_units(n) ==
    IF ~Less(n, N(<<1, 0>>)) THEN BlockSize("Kilobytes", AsU32(DivThousands(n, 1)))
    ELSE BlockSize("Bytes", AsU32(n))

\* impl From<u64> for BlockSize.
from_u64(n) ==
    IF ~Less(n, N(<<1, 0, 0, 0, 0>>)) THEN BlockSize("Terabytes", AsU32(DivThousands(n, 4)))
    ELSE IF ~Less(n, N(<<1, 0, 0, 0>>)) THEN BlockSize("Gigabytes", AsU32(DivThousands(n, 3)))
    ELSE IF ~Less(n, N(<<1, 0, 0>>)) THEN BlockSize("Megabytes", AsU32(DivThousands(n, 2)))
    ELSE IF ~Less(n, N(<<1, 0>>)) THEN BlockSize("Kilobytes", AsU32(DivThousands(n, 1)))
    ELSE BlockSize("Bytes", AsU32(n))

\* The strings from_str is called with: every formatted BlockSize, and others.
OtherStrings ==
    { <<"1", "5", "0", "0", "X">>, <<"7", "b">>, <<"1", "2">>, <<"+", "5", "K">>,
      <<"4", "2", "9", "4", "9", "6", "7", "2", "9", "6", "B">>,
      <<"K">>, <<"1", ".", "5", "K">>, <<"a", "M">>, <<>> }

BlockStrings == {BlockSize_to_string(b) : b \in BlockSizes} \cup OtherStrings

\* The argument of a function called on its own.
BlockArg(b) == [kind |-> "BlockSize", block |-> <<b>>, s |-> <<>>, n |-> <<>>]
StringArg(s) == [kind |-> "str", block |-> <<>>, s |-> s, n |-> <<>>]
U64Arg(n) == [kind |-> "u64", block |-> <<>>, s |-> <<>>, n |-> n]

BlockArgs ==
    {BlockArg(b) : b \in BlockSizes} \cup {StringArg(s) : s \in BlockStrings}
        \cup {U64Arg(n) : n \in ByteCounts}

Unapplied == applied.fn = "none"

Apply(fn, ret) ==
    /\ applied' = [applied EXCEPT !.fn = fn, !.ret = ret]
    /\ UNCHANGED <<cookies, call, trace, stream, polls, server, expr, suspended>>

to_bytes(build) ==
    /\ Unapplied /\ applied.arg.kind = "BlockSize"
    /\ Apply("to_bytes", ConvertTo(applied.arg.block[1], "Bytes", build))

to_kilobytes(build) ==
    /\ Unapplied /\ applied.arg.kind = "BlockSize"
    /\ Apply("to_kilobytes", ConvertTo(applied.arg.block[1], "Kilobytes", build))

to_megabytes(build) ==
    /\ Unapplied /\ applied.arg.kind = "BlockSize"
    /\ Apply("to_megabytes", ConvertTo(applied.arg.block[1], "Megabytes", build))

to_gigabytes(build) ==
    /\ Unapplied /\ applied.arg.kind = "BlockSize"
    /\ Apply("to_gigabytes", ConvertTo(applied.arg.block[1], "Gigabytes", build))

to_terabytes(build) ==
    /\ Unapplied /\ applied.arg.kind = "BlockSize"
    /\ Apply("to_terabytes", ConvertTo(applied.arg.block[1], "Terabytes", build))

block_to_string ==
    /\ Unapplied /\ applied.arg.kind = "BlockSize"
    /\ Apply("to_string", Returned(BlockSize_to_string(applied.arg.block[1])))

block_from_str ==
    /\ Unapplied /\ applied.arg.kind = "str"
    /\ Apply("from_str", from_str(applied.arg.s))

block_from_u64 ==
    /\ Unapplied /\ applied.arg.kind = "u64"
    /\ Apply("from", Returned(from_u64(applied.arg.n)))

----------------------------------------------------------------------------
(* client.rs: make_uri *)

\* Texts are sequences of atoms; '?', '&', '=', '#' and the characters a URI
\* may not hold (here the space and the double quote) are atoms of their own.
Urls == {<<"http://localhost:9090/v1">>, <<"https://dfs.example">>}
Paths == {<<"/doc/find">>, <<"/user/present">>}
QueryKeys == {<<"pod_name">>, <<"file_path">>, <<"expr">>}
QueryValues ==
    { <<"pod">>, <<>>, <<"n", "%3e", "=", "9">>, <<"a", "&", "b", "?">>,
      <<"a", "#", "b">>, <<"my", " ", "file">>, <<"#", "\"">> }

\* A query: HashMap<&str, &str>.
Queries == UNION {[keys -> QueryValues] : keys \in SUBSET QueryKeys}

\* The orders in which HashMap::iter may visit the entries of a query.
IterOrders(query) ==
    {order \in [1..Cardinality(DOMAIN query) -> DOMAIN query] :
        \A i, j \in DOMAIN order : order[i] = order[j] => i = j}

\* .map(|(k, v)| format!("{}={}", k, v)).collect::<Vec<String>>().join("&")
RECURSIVE JoinEntries(_, _)
JoinEntries(query, order) ==
    IF order = <<>> THEN <<>>
    ELSE order[1] \o <<"=">> \o query[order[1]]
            \o (IF Len(order) = 1 THEN <<>> ELSE <<"&">> \o JoinEntries(query, Tail(order)))

InvalidUriChars == {" ", "\""}

RECURSIVE BeforeFragment(_)
BeforeFragment(s) ==
    IF s = <<>> \/ Head(s) = "#" THEN <<>> ELSE <<Head(s)>> \o BeforeFragment(Tail(s))

\* Uri::from_str(..).unwrap(): the text up to a '#' is kept as it is, and a
\* character a URI may not hold before that makes the parse fail.
Uri_from_str(s) ==
    IF \E i \in 1..Len(BeforeFragment(s)) : BeforeFragment(s)[i] \in InvalidUriChars
    THEN Panicked
    ELSE Returned(BeforeFragment(s))

\* make_uri that writes the '?' also for an empty query.
make_uri_always_mark(url, path, query, order) ==
    Uri_from_str(url \o path \o <<"?">> \o JoinEntries(query, order))

make_uri(url, path, query, order) ==
    Uri_from_str(url \o path
                   \o (IF DOMAIN query = {} THEN <<>>
                       ELSE <<"?">> \o JoinEntries(query, order)))

UriArgs == [url : Urls, path : Paths, query : Queries]

client_make_uri ==
    /\ Unapplied
    /\ \E order \in IterOrders(applied.arg.query) :
         Apply("make_uri",
               [order |-> order,
                uri |-> make_uri(applied.arg.url, applied.arg.path, applied.arg.query, order)])

----------------------------------------------------------------------------
(* doc.rs: list_doc_databases *)

\* A String is the sequence of its bytes; String::partial_cmp compares byte by
\* byte, a proper prefix being the lesser.
RECURSIVE StrLess(_, _)
StrLess(a, b) ==
    IF b = <<>> THEN FALSE
    ELSE IF a = <<>> THEN TRUE
    ELSE IF Head(a) # Head(b) THEN Head(a) < Head(b)
    ELSE StrLess(Tail(a), Tail(b))

\* "T", "id", "m", "n1", "n2", "s1", "t1", "t10", "t2"
NameT == <<84>>
NameId == <<105, 100>>
NameM == <<109>>
NameN1 == <<110, 49>>
NameN2 == <<110, 50>>
NameS1 == <<115, 49>>
NameT1 == <<116, 49>>
NameT10 == <<116, 49, 48>>
NameT2 == <<116, 50>>

\* DocListPropertyResponse { name, type }
Property(name, type) == [name |-> name, type |-> type]

\* DocListTableResponse { table_name, indexes }
TableResponse(table_name, indexes) == [table_name |-> table_name, indexes |-> indexes]

\* The index lists a server sends in a table of DocListResponse.
IndexLists ==
    { <<Property(NameS1, 2), Property(NameN2, 3), Property(NameId, 2)>>,
      <<Property(NameN2, 3), Property(NameN1, 3), Property(NameN2, 2)>>,
      <<Property(NameId, 2), Property(NameM, 5)>> }

\* The orders a server lists its tables in.
TableOrders ==
    { <<>>, <<NameT1>>, <<NameT2, NameT1>>, <<NameT1, NameT2>>, <<NameT10, NameT2>>,
      <<NameT2, NameT10>>, <<NameT1, NameT>>, <<NameT2, NameT10, NameT1>>,
      <<NameT1, NameT2, NameT>> }

\* DocListResponse { tables }
DocListResponses ==
    {[i \in DOMAIN names |-> TableResponse(names[i], indexes)] :
        names \in TableOrders, indexes \in IndexLists}
      \cup {<<TableResponse(NameT1, <<Property(NameId, 2), Property(NameM, 4)>>),
              TableResponse(NameT1, <<>>)>>}

\* slice::sort_by(|a, b| a.name.partial_cmp(&b.name).unwrap()): a stable sort, so
\* the result is the one of inserting each element behind those not greater.
RECURSIVE InsertByName(_, _)
InsertByName(x, sorted) ==
    IF sorted = <<>> THEN <<x>>
    ELSE IF StrLess(x.name, Head(sorted).name) THEN <<x>> \o sorted
    ELSE <<Head(sorted)>> \o InsertByName(x, Tail(sorted))

RECURSIVE SortFrom(_, _)
SortFrom(items, sorted) ==
    IF items = <<>> THEN sorted
    ELSE SortFrom(Tail(items), InsertByName(Head(items), sorted))

\* sort_by_name that leaves the order as it is.
sort_by_name_keep_order(items) == items

sort_by_name(items) == SortFrom(items, <<>>)

FieldTypes == {2, 3, 4}

\* match prop.type { 2 => Str, 3 => Number, 4 => Map, _ => unreachable!() }
FieldType(type) ==
    IF type = 2 THEN "Str" ELSE IF type = 3 THEN "Number" ELSE "Map"

\* (prop.name.clone(), FieldType)
Field(prop) == [name |-> prop.name, type |-> FieldType(prop.type)]

\* DocumentDatabase { name, fields }
DocumentDatabase(table) ==
    [name |-> table.table_name,
     fields |-> sort_by_name([i \in DOMAIN table.indexes |-> Field(table.indexes[i])])]

\* The part of list_doc_databases after the `?`.
Databases(tables) ==
    IF \E i \in DOMAIN tables : \E j \in DOMAIN tables[i].indexes :
            tables[i].indexes[j].type \notin FieldTypes
    THEN Panicked
    ELSE Returned(sort_by_name([i \in DOMAIN tables |-> DocumentDatabase(tables[i])]))

list_doc_databases(username) ==
    /\ CanInvoke
    /\ applied' = NotApplied
    /\ IF cookie(cookies, username) = None
       THEN PanicAtCall("list_doc_databases", username)
       ELSE Invoke("list_doc_databases", username, cookie(cookies, username),
                   get_request("/doc/ls", cookie(cookies, username)))
    /\ UNCHANGED <<cookies, trace, stream, polls, server, expr>>

\* tables: what the body of a 2xx response decodes to.
list_doc_databases_resume ==
    /\ Resuming("list_doc_databases")
    /\ \/ AwaitBody(NetReplies)
       \/ /\ \E reply \in Completing(NetReplies) : \E tables \in DocListResponses :
               LET r == get(reply, "DocListResponse")
               IN  IF r.kind = "Ok"
                   THEN /\ Return(reply, r, IF Databases(tables).panic THEN Panic ELSE Ok)
                        /\ applied' = [fn |-> "list_doc_databases", arg |-> tables,
                                       ret |-> Databases(tables)]
                   ELSE /\ Return(reply, r, Outcome(r, MapErr(r, "Document")))
                        /\ applied' = NotApplied
          /\ UNCHANGED <<cookies, trace, stream, polls, server, expr, suspended>>

----------------------------------------------------------------------------
(* The client: any sequence of operations, one at a time *)

\* The client of a specification that awaits each call before it makes the next.
OneAtATime == call.phase # "awaiting"

Init ==
    /\ cookies = new_with_url
    /\ call = IdleCall
    /\ trace = <<>>
    /\ stream = None
    /\ polls = NoPolls
    /\ server = <<>>
    /\ expr = NoExpr
    /\ applied = NotApplied
    /\ suspended = EmptyBag

Next ==
    \/ OneAtATime /\ \E username \in Usernames : signup(username)
    \/ signup_resume
    \/ OneAtATime /\ \E username \in Usernames : login(username)
    \/ login_resume
    \/ OneAtATime /\ \E username \in Usernames : import_with_address(username)
    \/ import_with_address_resume
    \/ OneAtATime /\ \E username \in Usernames : import_with_mnemonic(username)
    \/ import_with_mnemonic_resume
    \/ OneAtATime /\ \E username \in Usernames : delete_user(username)
    \/ delete_user_resume
    \/ OneAtATime /\ \E username \in Usernames : user_exists(username)
    \/ user_exists_resume
    \/ OneAtATime /\ \E username \in Usernames : is_logged_in(username)
    \/ is_logged_in_resume
    \/ OneAtATime /\ \E username \in Usernames : logout(username)
    \/ logout_resume
    \/ OneAtATime /\ \E username \in Usernames : export_user(username)
    \/ export_user_resume
    \/ OneAtATime /\ \E username \in Usernames : user_info(username)
    \/ user_info_resume
    \/ OneAtATime /\ \E username \in Usernames : create_pod(username)
    \/ create_pod_resume
    \/ OneAtATime /\ \E username \in Usernames : delete_pod(username)
    \/ delete_pod_resume
    \/ OneAtATime /\ \E username \in Usernames : mkdir(username)
    \/ mkdir_resume
    \/ OneAtATime /\ \E username \in Usernames : kv_put_entry(username)
    \/ kv_put_entry_resume
    \/ OneAtATime /\ \E username \in Usernames : open_doc_database(username)
    \/ open_doc_database_resume

Spec == Init /\ [][Next]_vars

----------------------------------------------------------------------------
(* A client that makes a call while another is awaiting its reply *)

OverlapNext ==
    \/ \E username \in Usernames : login(username)
    \/ login_resume
    \/ \E username \in Usernames : is_logged_in(username)
    \/ is_logged_in_resume
    \/ \E username \in Usernames : user_info(username)
    \/ user_info_resume
    \/ \E username \in Usernames : create_pod(username)
    \/ create_pod_resume
    \/ poll_suspended

OverlapSpec == Init /\ [][OverlapNext]_vars

----------------------------------------------------------------------------
(* The session store on its own: any sequence of set_cookie / remove_cookie *)

SetCookieCall(username, c) ==
    /\ Len(trace) < MaxTrace
    /\ cookies' = set_cookie(cookies, username, c)
    /\ trace' = Append(trace, [fn |-> "set_cookie", username |-> username, cookie |-> c])
    /\ UNCHANGED <<call, stream, polls, server, expr, applied, suspended>>

RemoveCookieCall(username) ==
    /\ Len(trace) < MaxTrace
    /\ cookies' = remove_cookie(cookies, username)
    /\ trace' = Append(trace, [fn |-> "remove_cookie", username |-> username, cookie |-> <<>>])
    /\ UNCHANGED <<call, stream, polls, server, expr, applied, suspended>>

StoreNext ==
    \/ \E username \in Usernames : \E c \in StoreTokens : SetCookieCall(username, c)
    \/ \E username \in Usernames : RemoveCookieCall(username)

StoreSpec == Init /\ [][StoreNext]_vars

----------------------------------------------------------------------------
(* A session, a seek stream and its consumer *)

SeekNext ==
    \/ OneAtATime /\ \E username \in Usernames : login(username)
    \/ login_resume
    \/ OneAtATime /\ \E username \in Usernames : logout(username)
    \/ logout_resume
    \/ OneAtATime /\ \E username \in Usernames : \E args \in SeekArgs : kv_seek(username, args)
    \/ kv_seek_resume
    \/ poll_next
    \/ drop_stream

SeekSpec == Init /\ [][SeekNext]_vars

----------------------------------------------------------------------------
(* Expr::to_string on its own: any expression, compiled once *)

ExprInit ==
    /\ cookies = new_with_url
    /\ call = IdleCall
    /\ trace = <<>>
    /\ stream = None
    /\ polls = NoPolls
    /\ server = <<>>
    /\ expr \in {[e |-> e, compiled |-> NotCompiled] : e \in Exprs}
    /\ applied = NotApplied
    /\ suspended = EmptyBag

ExprNext == to_string

ExprSpec == ExprInit /\ [][ExprNext]_vars

----------------------------------------------------------------------------
(* A session and the document queries that compile an expression *)

DocNext ==
    \/ OneAtATime /\ \E username \in Usernames : login(username)
    \/ login_resume
    \/ OneAtATime /\ \E username \in Usernames : \E e \in DocExprs : find_documents(username, e)
    \/ find_documents_resume
    \/ OneAtATime /\ \E username \in Usernames : \E e \in DocExprs : count_documents(username, e)
    \/ count_documents_resume

DocSpec == Init /\ [][DocNext]_vars

----------------------------------------------------------------------------
(* BlockSize on its own: any value, string or byte count, one call *)

BlockInit ==
    /\ cookies = new_with_url
    /\ call = IdleCall
    /\ trace = <<>>
    /\ stream = None
    /\ polls = NoPolls
    /\ server = <<>>
    /\ expr = NoExpr
    /\ applied \in {[fn |-> "none", arg |-> a, ret |-> <<>>] : a \in BlockArgs}
    /\ suspended = EmptyBag

BlockNext ==
    \/ \E build \in Builds : to_bytes(build)
    \/ \E build \in Builds : to_kilobytes(build)
    \/ \E build \in Builds : to_megabytes(build)
    \/ \E build \in Builds : to_gigabytes(build)
    \/ \E build \in Builds : to_terabytes(build)
    \/ block_to_string
    \/ block_from_str
    \/ block_from_u64

BlockSpec == BlockInit /\ [][BlockNext]_vars

----------------------------------------------------------------------------
(* make_uri on its own: any base URL, path and query, one call *)

UriInit ==
    /\ cookies = new_with_url
    /\ call = IdleCall
    /\ trace = <<>>
    /\ stream = None
    /\ polls = NoPolls
    /\ server = <<>>
    /\ expr = NoExpr
    /\ applied \in {[fn |-> "none", arg |-> a, ret |-> <<>>] : a \in UriArgs}
    /\ suspended = EmptyBag

UriNext == client_make_uri

UriSpec == UriInit /\ [][UriNext]_vars

----------------------------------------------------------------------------
(* A seek stream whose consumer goes on polling after None *)

PollOnNext ==
    \/ OneAtATime /\ \E username \in Usernames : login(username)
    \/ login_resume
    \/ OneAtATime /\ \E username \in Usernames : \E args \in SeekArgs : kv_seek(username, args)
    \/ kv_seek_resume
    \/ poll_next
    \/ poll_next_after_end

PollOnSpec == Init /\ [][PollOnNext]_vars

----------------------------------------------------------------------------
(* Listing the document databases of a logged-in user *)

ListNext ==
    \/ OneAtATime /\ \E username \in Usernames : login(username)
    \/ login_resume
    \/ OneAtATime /\ \E username \in Usernames : list_doc_databases(username)
    \/ list_doc_databases_resume

ListSpec == Init /\ [][ListNext]_vars

----------------------------------------------------------------------------
(* What the properties below speak about *)

Done == call.phase = "done"
Answered == Done /\ call.reply # None /\ call.reply[1].connected
Unreachable == Done /\ call.reply # None /\ ~call.reply[1].connected
TheReply == call.reply[1]
Method == call.requests[1].method

SuccessStatus(status) == status \in 200..299

\* The first cookie-pair of a header value: its text before the first ';'.
RECURSIVE UpTo(_, _)
UpTo(s, sep) ==
    IF s = <<>> \/ Head(s) = sep THEN <<>> ELSE <<Head(s)>> \o UpTo(Tail(s), sep)

RECURSIVE After(_, _)
After(s, sep) ==
    IF s = <<>> THEN <<>> ELSE IF Head(s) = sep THEN Tail(s) ELSE After(Tail(s), sep)

HasPair(h) == \E i \in 1..Len(UpTo(h, ";")) : UpTo(h, ";")[i] = "="
\* A cookie-pair is name "=" value: the name ends at the first '=', the value is
\* everything after it.
PairName(h) == UpTo(UpTo(h, ";"), "=")
PairValue(h) == After(UpTo(h, ";"), "=")

\* post panics on a first Set-Cookie header that is not visible ASCII or whose
\* first cookie-pair holds no '='.
BrokenSetCookie ==
    /\ Method = "POST"
    /\ TheReply.set_cookie # <<>>
    /\ \/ ~HasPair(TheReply.set_cookie[1])
       \/ \E i \in 1..Len(TheReply.set_cookie[1]) : TheReply.set_cookie[1][i] = ObsText

\* The operations by the type their 2xx body is decoded as, and by domain.
EnvelopeOps ==
    {"login", "delete_user", "logout", "create_pod", "delete_pod", "mkdir",
     "kv_put_entry", "open_doc_database"}
UserOps ==
    {"signup", "login", "import_with_address", "import_with_mnemonic", "delete_user",
     "user_exists", "is_logged_in", "logout", "export_user", "user_info"}
OpDomain(op) ==
    IF op \in UserOps THEN "User"
    ELSE IF op \in {"create_pod", "delete_pod"} THEN "Pod"
    ELSE IF op = "mkdir" THEN "FileSystem"
    ELSE IF op = "kv_put_entry" THEN "KeyValue"
    ELSE "Document"
SuccessShape(op) == IF op \in EnvelopeOps THEN "envelope" ELSE "data"

OpenSessionOps == {"signup", "login", "import_with_address", "import_with_mnemonic"}
CloseSessionOps == {"logout", "delete_user"}
UnauthOps == OpenSessionOps \cup {"user_exists", "is_logged_in"}

----------------------------------------------------------------------------
(* C1 *)

\* C1: in get, post and delete a response with a status in 200..299 is decoded as
\* the success type and returned as Ok with the decoded body, a response with any
\* other status (199 and 300 too) is decoded as the {message, code} envelope and
\* returned as the remote failure; no status gives both outcomes or neither.
C1_StatusClassification ==
    Answered =>
        IF SuccessStatus(TheReply.status)
        THEN /\ call.transport.kind \in {"Ok", "Panic"}
             /\ call.transport.kind = "Ok" => call.transport.payload = <<TheReply.body>>
             /\ (TheReply.body.kind = SuccessShape(call.op) /\ ~BrokenSetCookie)
                    => call.transport.kind = "Ok"
        ELSE /\ call.transport.kind \in {"Message", "Panic"}
             /\ (TheReply.body.kind = "envelope" /\ ~BrokenSetCookie)
                    => call.transport.kind = "Message"

C1_Witness ==
    /\ Answered
    /\ TheReply.status = 300
    /\ Method = "DELETE"
    /\ call.transport.kind = "Message"

----------------------------------------------------------------------------
(* C2 *)

\* C2: an operation reports a failure to reach the server as CouldNotConnect and a
\* non-2xx response as an error of its own domain; a connect failure is never a
\* domain error and a rejection is never CouldNotConnect.
C2_ErrorKinds ==
    /\ Unreachable => call.result = Err(CouldNotConnect)
    /\ Answered =>
        /\ call.result.kind = "Err" =>
              /\ ~SuccessStatus(TheReply.status)
              /\ call.result.error.kind = OpDomain(call.op)
        /\ (~SuccessStatus(TheReply.status) /\ TheReply.body.kind = "envelope"
                /\ ~BrokenSetCookie)
              => call.result.kind = "Err"

C2_Witness ==
    /\ Unreachable
    /\ call.op = "create_pod"
    /\ call.result = Err(CouldNotConnect)

----------------------------------------------------------------------------
(* C3 *)

\* C3 as claimed: a remote failure reaches the caller of the transport carrying the
\* message and the numeric code of the envelope.
C3_MessageAndCode ==
    (Answered /\ call.transport.kind = "Message") =>
        call.transport.payload = <<TheReply.body.message, TheReply.body.code>>

----------------------------------------------------------------------------
(* C4 *)

\* The Set-Cookie headers of the reply that name the session cookie, and the token
\* the reply carries: the value of that cookie.
SessionCookies(reply) ==
    {i \in 1..Len(reply.set_cookie) :
        HasPair(reply.set_cookie[i]) /\ PairName(reply.set_cookie[i]) = <<"fairOS-dfs">>}
CarriesSessionCookie(reply) == SessionCookies(reply) # {}
CarriedToken(reply) ==
    PairValue(reply.set_cookie[CHOOSE i \in SessionCookies(reply) :
                                   \A j \in SessionCookies(reply) : i <= j])

\* C4 as claimed: when signup, login, import_with_address or import_with_mnemonic
\* returns Ok for u, cookie(u) is Some(t) with t the session token the response
\* carried, whatever was stored before; when logout or delete_user returns Ok for u,
\* cookie(u) is None.
C4_SessionLifecycle ==
    (Done /\ call.result.kind = "Ok") =>
        /\ call.op \in OpenSessionOps =>
              /\ CarriesSessionCookie(TheReply)
              /\ cookie(cookies, call.username) = Some(CarriedToken(TheReply))
        /\ call.op \in CloseSessionOps => cookie(cookies, call.username) = None

----------------------------------------------------------------------------
(* C5 *)

\* What the calls of the trace leave for username u: the argument of the last
\* set_cookie(u, _) unless a remove_cookie(u) came after it.
CallsFor(u) == {i \in 1..Len(trace) : trace[i].username = u}
LastCallFor(u) == CHOOSE i \in CallsFor(u) : \A j \in CallsFor(u) : j <= i
Expected(u) ==
    IF CallsFor(u) = {} THEN None
    ELSE IF trace[LastCallFor(u)].fn = "set_cookie"
         THEN Some(trace[LastCallFor(u)].cookie)
         ELSE None

\* C5: after any sequence of set_cookie and remove_cookie calls, cookie(u) is
\* Some(t) for the t of the most recent set_cookie(u, t) not followed by
\* remove_cookie(u), and None without one; calls for other usernames do not count.
C5_StoreIsMap ==
    \A u \in Usernames :
        /\ cookie(cookies, u) = Expected(u)
        /\ (u \in DOMAIN cookies) = (Expected(u) # None)

C5_Witness ==
    /\ Len(trace) = 3
    /\ trace[1] = [fn |-> "set_cookie", username |-> "alice", cookie |-> <<"t1">>]
    /\ trace[2] = [fn |-> "set_cookie", username |-> "alice", cookie |-> <<"t2">>]
    /\ trace[3] = [fn |-> "remove_cookie", username |-> "bob", cookie |-> <<>>]
    /\ cookie(cookies, "alice") = Some(<<"t2">>)
    /\ cookie(cookies, "bob") = None

----------------------------------------------------------------------------
(* C6 *)

\* C6 as claimed: a transport call yields a token exactly when it is a POST whose
\* response carries a Set-Cookie header named fairOS-dfs, the token is that
\* cookie's value, and GET and DELETE never yield one.
C6_RefreshedToken ==
    (Answered /\ call.transport.kind = "Ok") =>
        /\ (call.transport.cookie # None)
              = (Method = "POST" /\ CarriesSessionCookie(TheReply))
        /\ call.transport.cookie # None
              => call.transport.cookie = Some(CarriedToken(TheReply))

----------------------------------------------------------------------------
(* C7 *)

\* C7 as claimed: when the response to a POST issued for u (create_pod,
\* kv_put_entry, export_user) yields a fairOS-dfs token, the token stored for u is
\* afterwards that new value.
C7_RefreshedOnPost ==
    (Answered /\ call.op \in {"create_pod", "kv_put_entry", "export_user"}
        /\ call.transport.cookie # None)
      => cookie(cookies, call.username) = call.transport.cookie

\* C7, amended: only signup, login, import_with_address and import_with_mnemonic
\* store the token a POST response yields (when they return Ok); logout removes
\* the token when it returns Ok; every other POST issued for u leaves the store as
\* it was before the call, also when its response yields a fairOS-dfs token.
C7_StoredOnlyByOpeners ==
    (Done /\ call.requests # <<>> /\ Method = "POST") =>
        IF call.op \in OpenSessionOps /\ call.result.kind = "Ok"
        THEN /\ call.transport.cookie # None
             /\ DOMAIN cookies = DOMAIN call.before \cup {call.username}
             /\ \A u \in DOMAIN cookies :
                  cookies[u] = IF u = call.username
                               THEN call.transport.cookie[1]
                               ELSE call.before[u]
        ELSE IF call.op = "logout" /\ call.result.kind = "Ok"
        THEN /\ DOMAIN cookies = DOMAIN call.before \ {call.username}
             /\ \A u \in DOMAIN cookies : cookies[u] = call.before[u]
        ELSE cookies = call.before

C7_Witness ==
    /\ Done
    /\ call.op = "create_pod"
    /\ call.result.kind = "Ok"
    /\ call.transport.cookie = Some(<<"t2">>)
    /\ cookie(cookies, call.username) = Some(<<"t1">>)

----------------------------------------------------------------------------
(* C8 *)

\* C8: a request carries the Cookie header fairOS-dfs=<token> exactly when a token
\* is supplied to the transport call; signup, login, import_with_address,
\* import_with_mnemonic, user_exists and is_logged_in supply none, also when a
\* token is stored for the username, and every other operation supplies the
\* stored one.
C8_CookieHeader ==
    \A i \in 1..Len(call.requests) :
        /\ call.requests[i].cookie =
              IF call.supplied = None THEN None
              ELSE Some(<<"fairOS-dfs", "=">> \o call.supplied[1])
        /\ call.supplied =
              IF call.op \in UnauthOps THEN None
              ELSE Some(call.before[call.username])

C8_Witness ==
    /\ Done
    /\ call.op = "login"
    /\ call.username \in DOMAIN call.before
    /\ Len(call.requests) = 1
    /\ call.requests[1].cookie = None

----------------------------------------------------------------------------
(* C9 *)

\* C9 as claimed: every failure reaches the caller as a typed error and never as a
\* panic; an authenticated operation called for a username that has no token in
\* the session store returns a typed error.
C9_TypedErrorWithoutSession ==
    (Done /\ call.op \notin UnauthOps /\ cookie(call.before, call.username) = None)
      => call.result.kind = "Err"

----------------------------------------------------------------------------
(* C10 *)

\* C10: one invocation of an operation issues exactly one HTTP request, whether it
\* ends in success, in a remote rejection or in a connect failure.
C10_OneRequest ==
    /\ call.phase = "awaiting" => Len(call.requests) = 1
    /\ (Done /\ call.result.kind \in {"Ok", "Err"}) => Len(call.requests) = 1

C10_Witness ==
    /\ Unreachable
    /\ call.result = Err(CouldNotConnect)
    /\ Len(call.requests) = 1

----------------------------------------------------------------------------
(* C11 *)

SeekCall == call.op = "kv_seek"
\* kv_seek has returned and the stream, if it returned one, is still held.
SeekReturned == SeekCall /\ Done /\ polls.args # NoArgs

\* C11: kv_seek issues exactly one POST /kv/seek carrying the start key, the
\* optional end key and the optional limit before it returns and no /kv/seek/next
\* request itself; it returns a KeyValueSeek only if that POST succeeded, and when
\* the setup call fails the caller gets an error and no stream exists.
C11_SeekSetup ==
    /\ (SeekCall /\ call.phase = "awaiting") =>
          /\ stream = None
          /\ polls.pull = <<>>
    /\ (SeekCall /\ (call.phase = "awaiting" \/ call.result.kind \in {"Ok", "Err"})) =>
          /\ Len(call.requests) = 1
          /\ call.requests[1].method = "POST"
          /\ call.requests[1].path = "/kv/seek"
    /\ (SeekCall /\ polls.args # NoArgs
            /\ (call.phase = "awaiting" \/ call.result.kind \in {"Ok", "Err"})) =>
          /\ call.requests[1].data.start_prefix = polls.args.start_key
          /\ call.requests[1].data.end_prefix = polls.args.end_key
          /\ call.requests[1].data.limit = polls.args.limit
    /\ (SeekReturned /\ polls.count = 0) => polls.pull = <<>>
    /\ SeekReturned =>
          /\ (stream # None) = (call.result.kind = "Ok")
          /\ call.result.kind = "Ok" =>
                (Answered /\ SuccessStatus(TheReply.status))
          /\ (Unreachable \/ (Answered /\ ~SuccessStatus(TheReply.status)
                                /\ TheReply.body.kind = "envelope"))
                => (call.result.kind = "Err" /\ stream = None)

C11_Witness ==
    /\ SeekReturned
    /\ call.result.kind = "Ok"
    /\ stream # None
    /\ polls.count = 0
    /\ call.requests[1].data.start_prefix = "abc"
    /\ call.requests[1].data.limit = Some(2)

C11_WitnessFailed ==
    /\ SeekReturned
    /\ call.result = Err(FairOSError("KeyValue", "Error"))
    /\ stream = None

----------------------------------------------------------------------------
(* C12 *)

\* The /kv/seek/next requests of the current pull that reached the server.
WrittenInPull == {i \in 1..Len(polls.pull) : polls.pull[i].written}

\* C12 as claimed: each pull of the next element issues one GET /kv/seek/next:
\* when an item is delivered, exactly one such request was sent to the server
\* since the item before it (or since construction), also when poll_next returned
\* Pending one or more times in between.
C12_OneRequestPerItem ==
    polls.last = "Item" => Cardinality(WrittenInPull) = 1

----------------------------------------------------------------------------
(* C13 *)

\* The seek of the scenario: no end key, no limit, and every reply so far is
\* the one the server's cursor gives.
SeekScenario ==
    /\ stream # None
    /\ polls.honest
    /\ polls.args.end_key = None
    /\ polls.args.limit = None

\* The stored pairs with key at or after the start key, in ascending key order.
PairsFrom(start_key) ==
    [i \in 1..(Len(Table) - KeyIndex(start_key) + 1) |->
        <<Table[KeyIndex(start_key) + i - 1].key, Table[KeyIndex(start_key) + i - 1].value>>]

IsPrefix(s, t) == Len(s) <= Len(t) /\ SubSeq(t, 1, Len(s)) = s

\* C13 as claimed: with a server whose cursor holds the stored pairs from the
\* start key on and moves by one on every /kv/seek/next request it receives, the
\* consumer receives exactly those pairs, each once and in that order, and then
\* the end of the sequence (keys abc, bcd, cde, def and start key bcd give
\* (bcd,efg), (cde,fgh), (def,ghi), then the end).
C13_SeekYieldsStoredPairs ==
    SeekScenario =>
        /\ IsPrefix(polls.delivered, PairsFrom(polls.args.start_key))
        /\ polls.last = "End" => polls.delivered = PairsFrom(polls.args.start_key)

----------------------------------------------------------------------------
(* C14 *)

\* The last poll_next call: the reply its request future was ready with.
LastPoll == polls.pull[Len(polls.pull)]
LastPollReady == polls.pull # <<>> /\ LastPoll.state = "completed"
LastPollReply == LastPoll.reply[1]

\* C14: when a GET /kv/seek/next request fails, by a response whose status is
\* not 2xx or by a failure to connect, poll_next returns Ready(None): the stream
\* reports the end of the sequence, delivers no item for that request and hands
\* no error to the consumer.
C14_FailureEndsStream ==
    LastPollReady =>
        /\ (~LastPollReply.connected
              \/ (~SuccessStatus(LastPollReply.status)
                     /\ LastPollReply.body.kind = "envelope"))
              => polls.last = "End"
        /\ (~LastPollReply.connected \/ ~SuccessStatus(LastPollReply.status))
              => polls.last \in {"End", "Panic"}
        /\ polls.last = "End"
              => (~LastPollReply.connected \/ ~SuccessStatus(LastPollReply.status))

C14_Witness ==
    /\ LastPollReady
    /\ ~LastPollReply.connected
    /\ polls.last = "End"
    /\ Len(polls.delivered) = 1

C14_WitnessRejected ==
    /\ LastPollReady
    /\ LastPollReply.connected
    /\ LastPollReply.status = 300
    /\ server # <<>>
    /\ polls.last = "End"

----------------------------------------------------------------------------
(* C15 *)

\* The requests of the current pull the stream still waits for, and those that
\* reached the server and have had no response taken from them.
AwaitedInPull ==
    {i \in 1..Len(polls.pull) : polls.pull[i].state \notin {"dropped", "completed"}}
UnansweredInPull ==
    {i \in 1..Len(polls.pull) : polls.pull[i].written /\ polls.pull[i].reply = None}

\* C15 as claimed: while an element is being pulled (poll_next has returned
\* Pending and the item is not there yet) the stream has exactly one outstanding
\* /kv/seek/next request, and at no moment more than one.
C15_OneOutstandingRequest ==
    /\ polls.last = "Pending" => Cardinality(AwaitedInPull) = 1
    /\ Cardinality(UnansweredInPull) <= 1

----------------------------------------------------------------------------
(* C16 *)

\* C16: while a KeyValueSeek exists no session-mutating operation runs on its
\* Client, so every /kv/seek/next request of the stream carries the cookie the
\* /kv/seek setup call carried, the token stored for the stream's username is
\* the one found at setup, and no poll finds the session missing.
C16_StreamKeepsSession ==
    stream # None =>
        /\ polls.last # "NoSession"
        /\ polls.setup # None
        /\ cookie(cookies, stream[1].username) # None
        /\ CookieHeader(cookies[stream[1].username]) = polls.setup[1]
        /\ \A i \in 1..Len(polls.pull) : polls.pull[i].request.cookie = polls.setup
        /\ call.op \notin OpenSessionOps \cup CloseSessionOps

C16_Witness ==
    /\ stream # None
    /\ polls.count = 3
    /\ Len(polls.pull) = 2
    /\ polls.pull[2].request.cookie = Some(<<"fairOS-dfs", "=", "t1">>)
    /\ cookie(cookies, "bob") = Some(<<"t2">>)
    /\ stream[1].username = "alice"
    /\ call.transport.cookie = Some(<<"t2">>)

----------------------------------------------------------------------------
(* C17 *)

\* C17: size_hint of a KeyValueSeek reports the lower bound 0 and the upper
\* bound Some(limit) when a limit was passed to the kv_seek that built the stream,
\* None when no limit was passed, before the first poll and after every poll.
C17_SizeHint ==
    stream # None =>
        /\ size_hint(stream[1])[1] = 0
        /\ polls.args.limit = None => size_hint(stream[1])[2] = None
        /\ \A n \in {2, 2147483647} :
              polls.args.limit = <<n>> => size_hint(stream[1])[2] = <<n>>
        /\ polls.args.limit \in {None, <<2>>, <<2147483647>>}

C17_Witness ==
    /\ stream # None
    /\ polls.args.limit = Some(2)
    /\ polls.count = 2
    /\ polls.last = "End"
    /\ size_hint(stream[1]) = <<0, Some(2)>>

C17_WitnessUnbounded ==
    /\ stream # None
    /\ polls.args.limit = None
    /\ polls.last = "Pending"
    /\ size_hint(stream[1]) = <<0, None>>

----------------------------------------------------------------------------
(* C18 *)

WasCompiled == expr.compiled # NotCompiled

\* The decimal digits of the numbers explored, written out.
Decimal(n) ==
    IF n = 0 THEN <<"0">>
    ELSE IF n = 9 THEN <<"9">>
    ELSE IF n = 10 THEN <<"1", "0">>
    ELSE <<"2", "1", "4", "7", "4", "8", "3", "6", "4", "7">>

\* The text of a value in the templates: %22s%22 for Str(s), digits for Number(n).
Rendered(v) ==
    IF v.kind = "Str" THEN <<"%22">> \o v.s \o <<"%22">> ELSE Decimal(v.n)

\* C18: compiling gives exactly the documented template: All gives the empty
\* string, Eq(f, v) gives f=v, Gt(f, v) gives f%3ev and Gte(f, v) gives f%3e=v,
\* with v rendered as %22s%22 for Str(s) and as the decimal digits for Number(n);
\* Gt("n", Number(9)) gives n%3e9.
C18_CompileTemplate ==
    WasCompiled =>
        /\ expr.e.op = "All" => expr.compiled = [panic |-> FALSE, string |-> <<>>]
        /\ (expr.e.op \in {"Eq", "Gt", "Gte"} /\ expr.e.value.kind # "Map") =>
              /\ ~expr.compiled.panic
              /\ expr.e.op = "Eq" =>
                    expr.compiled.string = expr.e.field \o <<"=">> \o Rendered(expr.e.value)
              /\ expr.e.op = "Gt" =>
                    expr.compiled.string = expr.e.field \o <<"%3e">> \o Rendered(expr.e.value)
              /\ expr.e.op = "Gte" =>
                    expr.compiled.string
                        = expr.e.field \o <<"%3e", "=">> \o Rendered(expr.e.value)
        /\ expr.e = Cmp("Gt", <<"n">>, Number(9)) =>
              expr.compiled.string = <<"n", "%3e", "9">>
        /\ expr.e = Cmp("Eq", <<"s">>, Str(<<"a">>)) =>
              expr.compiled.string = <<"s", "=", "%22", "a", "%22">>

C18_Witness ==
    /\ WasCompiled
    /\ expr.e = Cmp("Gte", <<"n">>, Number(2147483647))
    /\ expr.compiled.string
          = <<"n", "%3e", "=", "2", "1", "4", "7", "4", "8", "3", "6", "4", "7">>

----------------------------------------------------------------------------
(* C19 *)

\* C19: Lt and Lte compile with the operands in the opposite order to Gt and Gte:
\* Lt(f, v) gives v%3ef and Lte(f, v) gives v%3e=f, which is what Gt(f, v) and
\* Gte(f, v) give with the field text and the value text exchanged.
C19_LtLteInverted ==
    (WasCompiled /\ expr.e.op \in {"Lt", "Lte"} /\ expr.e.value.kind # "Map") =>
        /\ ~expr.compiled.panic
        /\ expr.e.op = "Lt" =>
              /\ expr.compiled.string = Rendered(expr.e.value) \o <<"%3e">> \o expr.e.field
              /\ Expr_to_string(Cmp("Gt", expr.e.field, expr.e.value)).string
                    = expr.e.field \o <<"%3e">> \o Rendered(expr.e.value)
        /\ expr.e.op = "Lte" =>
              /\ expr.compiled.string
                    = Rendered(expr.e.value) \o <<"%3e", "=">> \o expr.e.field
              /\ Expr_to_string(Cmp("Gte", expr.e.field, expr.e.value)).string
                    = expr.e.field \o <<"%3e", "=">> \o Rendered(expr.e.value)

C19_Witness ==
    /\ WasCompiled
    /\ expr.e = Cmp("Lt", <<"n">>, Number(10))
    /\ expr.compiled.string = <<"1", "0", "%3e", "n">>

----------------------------------------------------------------------------
(* C20 *)

\* An expression the code does not implement: And, Or, or a comparison with Map.
NotImplemented(e) ==
    \/ e.op \in {"And", "Or"}
    \/ e.op \in CmpOps /\ e.value.kind = "Map"

DocCall == call.op \in {"find_documents", "count_documents"}

\* C20: compiling And, Or, or any comparison whose value is Map fails fast and
\* never returns a string; find_documents and count_documents called with such
\* an expression panic before any request is sent, with or without a session.
C20_UnimplementedFailsFast ==
    /\ \A e \in Exprs : NotImplemented(e) => Expr_to_string(e).panic
    /\ (DocCall /\ WasCompiled /\ NotImplemented(expr.e)) =>
          /\ expr.compiled.panic
          /\ call.phase = "done"
          /\ call.result = Panic
          /\ call.requests = <<>>
    /\ (DocCall /\ call.requests # <<>>) =>
          /\ ~NotImplemented(expr.e)
          /\ call.requests[1].data.expr = expr.compiled.string

C20_Witness ==
    /\ call.op = "count_documents"
    /\ expr.e.op = "Or"
    /\ cookie(cookies, call.username) # None
    /\ call.result = Panic
    /\ call.requests = <<>>

C20_WitnessMap ==
    /\ call.op = "find_documents"
    /\ expr.e = Cmp("Lt", <<"n">>, Map)
    /\ cookie(cookies, call.username) # None
    /\ call.result = Panic
    /\ call.requests = <<>>

----------------------------------------------------------------------------
(* C21 *)

Called(fn) == applied.fn = fn

UnitLetters == {"B", "K", "M", "G", "T"}

\* The text is one or more decimal digits that denote a u32.
IsU32Numeral(chars) ==
    /\ chars # <<>>
    /\ \A i \in 1..Len(chars) : chars[i] \in DigitChars
    /\ \/ Len(chars) < 10
       \/ Len(chars) = 10 /\ ~Less(N(<<4, 294, 967, 295>>), DecimalValue(chars))

\* C21: for every unit u and every u32 magnitude n, parsing the string that
\* formatting BlockSize(u, n) gives returns Ok(BlockSize(u, n)) (1500 kilobytes
\* formats as 1500K); parsing a u32 numeral followed by a last character that
\* is not one of B, K, M, G, T returns Err.
C21_FormatParseRoundTrip ==
    /\ Called("from_str") =>
          /\ \A b \in BlockSizes :
                applied.arg.s = BlockSize_to_string(b)
                    => applied.ret = [panic |-> FALSE,
                                      value |-> [ok |-> TRUE, block |-> <<b>>]]
          /\ (applied.arg.s # <<>>
                /\ applied.arg.s[Len(applied.arg.s)] \notin UnitLetters
                /\ IsU32Numeral(SubSeq(applied.arg.s, 1, Len(applied.arg.s) - 1)))
                => applied.ret = [panic |-> FALSE,
                                  value |-> [ok |-> FALSE, block |-> <<>>]]
    /\ Called("to_string") =>
          /\ applied.arg.block[1] = BlockSize("Kilobytes", <<1500>>)
                => applied.ret.value = <<"1", "5", "0", "0", "K">>
          /\ applied.arg.block[1] = BlockSize("Bytes", <<>>)
                => applied.ret.value = <<"0", "B">>
          /\ applied.arg.block[1] = BlockSize("Terabytes", <<65535, 65535>>)
                => applied.ret.value
                      = <<"4", "2", "9", "4", "9", "6", "7", "2", "9", "5", "T">>
          /\ from_str(applied.ret.value)
                = [panic |-> FALSE, value |-> [ok |-> TRUE, block |-> applied.arg.block]]

C21_Witness ==
    /\ Called("from_str")
    /\ applied.arg.s = <<"4", "2", "9", "4", "9", "6", "7", "2", "9", "5", "T">>
    /\ applied.ret = [panic |-> FALSE,
                      value |-> [ok |-> TRUE,
                                 block |-> <<BlockSize("Terabytes", <<65535, 65535>>)>>]]

C21_WitnessErr ==
    /\ Called("from_str")
    /\ applied.arg.s = <<"1", "5", "0", "0", "X">>
    /\ applied.ret = [panic |-> FALSE, value |-> [ok |-> FALSE, block |-> <<>>]]

----------------------------------------------------------------------------
(* C22 *)

ConversionTarget ==
    IF Called("to_bytes") THEN "Bytes"
    ELSE IF Called("to_kilobytes") THEN "Kilobytes"
    ELSE IF Called("to_megabytes") THEN "Megabytes"
    ELSE IF Called("to_gigabytes") THEN "Gigabytes"
    ELSE "Terabytes"

Converted ==
    \/ Called("to_bytes") \/ Called("to_kilobytes") \/ Called("to_megabytes")
    \/ Called("to_gigabytes") \/ Called("to_terabytes")

\* floor(magnitude * factor of the unit of b / factor of the target unit).
FloorOfBytes(b, target) ==
    DivThousands(MulThousands(b.n, Thousands(b.unit)), Thousands(target))

\* C22 as claimed: for every BlockSize b, of any unit and any u32 magnitude, and
\* every target unit with factor F, the conversion returns the target unit with
\* magnitude floor(bytes(b) / F); Bytes(1500).to_kilobytes() is Kilobytes(1).
C22_TruncatingConversion ==
    Converted =>
        /\ ~applied.ret.panic
        /\ applied.ret.value.unit = ConversionTarget
        /\ applied.ret.value.n = FloorOfBytes(applied.arg.block[1], ConversionTarget)

----------------------------------------------------------------------------
(* C26 *)

\* The unit and the magnitude the claim gives for a byte count n.
LargestUnit(n) ==
    CHOOSE u \in UnitSet :
        /\ \/ ~Less(n, MulThousands(<<1>>, Thousands(u)))
           \/ u = "Bytes"
        /\ \A v \in UnitSet :
              ~Less(n, MulThousands(<<1>>, Thousands(v))) => Thousands(v) <= Thousands(u)

\* C26: BlockSize::from(n) for a u64 byte count n returns the largest unit whose
\* factor is at most n (Bytes when n < 1000) with magnitude floor(n / factor);
\* the magnitude fits in u32 without wrapping and is below 1000 for every unit
\* except Terabytes; 1000 gives Kilobytes(1).
C26_FromByteCount ==
    Called("from") =>
        /\ ~applied.ret.panic
        /\ applied.ret.value.unit = LargestUnit(applied.arg.n)
        /\ applied.ret.value.n
              = DivThousands(applied.arg.n, Thousands(applied.ret.value.unit))
        /\ FitsU32(DivThousands(applied.arg.n, Thousands(applied.ret.value.unit)))
        /\ applied.ret.value.unit # "Terabytes" => Less(applied.ret.value.n, <<1000>>)
        /\ applied.arg.n = <<1000>> => applied.ret.value = BlockSize("Kilobytes", <<1>>)
        /\ applied.arg.n = <<999>> => applied.ret.value = BlockSize("Bytes", <<999>>)

C26_Witness ==
    /\ Called("from")
    /\ applied.arg.n = <<65535, 65535, 65535, 65535>>
    /\ applied.ret.value = BlockSize("Terabytes", N(<<18, 446, 744>>))

C26_WitnessKilobytes ==
    /\ Called("from")
    /\ applied.arg.n = <<1000>>
    /\ applied.ret.value = BlockSize("Kilobytes", <<1>>)

----------------------------------------------------------------------------
(* C23 *)

\* The operation got a remote rejection: a non-2xx response with an envelope.
Rejected == Answered /\ call.transport.kind = "Message"

\* C23: signup maps the message "user signup: user name already present" to
\* UsernameAlreadyExists, login maps "user login: invalid user name" to
\* InvalidUsername and "user login: invalid password" to InvalidPassword; every
\* other remote message, on these and on all other operations, gives the Error
\* variant of the operation's domain.
C23_MessageToError ==
    Rejected =>
        /\ call.result.kind = "Err"
        /\ call.result.error.kind = OpDomain(call.op)
        /\ call.result.error.variant =
              IF call.op = "signup"
                   /\ TheReply.body.message = "user signup: user name already present"
              THEN "UsernameAlreadyExists"
              ELSE IF call.op = "login"
                        /\ TheReply.body.message = "user login: invalid user name"
              THEN "InvalidUsername"
              ELSE IF call.op = "login"
                        /\ TheReply.body.message = "user login: invalid password"
              THEN "InvalidPassword"
              ELSE "Error"

C23_Witness ==
    /\ Rejected
    /\ call.op = "login"
    /\ TheReply.body.message = "user login: invalid password"
    /\ call.result = Err(FairOSError("User", "InvalidPassword"))

C23_WitnessCollapsed ==
    /\ Rejected
    /\ call.op = "signup"
    /\ TheReply.body.message = "user login: invalid user name"
    /\ call.result = Err(FairOSError("User", "Error"))

----------------------------------------------------------------------------
(* C24 *)

Verbatim(arg, order) ==
    arg.url \o arg.path
        \o (IF DOMAIN arg.query = {} THEN <<>> ELSE <<"?">> \o JoinEntries(arg.query, order))

Holds(text, c) == \E i \in 1..Len(text) : text[i] = c

\* C24: the URI make_uri returns is the base URL, then the path, then, only
\* for a non-empty query map, '?' and the key=value pairs of the entries joined
\* by '&', every key and value as it was given; for an empty query map the URI
\* holds no '?'.
C24_RequestUri ==
    Called("make_uri") =>
        /\ ~applied.ret.uri.panic
        /\ applied.ret.uri.value = Verbatim(applied.arg, applied.ret.order)
        /\ DOMAIN applied.arg.query = {} => ~Holds(applied.ret.uri.value, "?")

----------------------------------------------------------------------------
(* C25 *)

\* No element of the list has a name less than the name of an element before it.
AscendingByName(items) ==
    \A i, j \in DOMAIN items : i < j => ~StrLess(items[j].name, items[i].name)

\* The two lists hold the same elements the same number of times.
SameElements(xs, ys) ==
    /\ Len(xs) = Len(ys)
    /\ \A x \in {xs[i] : i \in DOMAIN xs} :
         Cardinality({i \in DOMAIN xs : xs[i] = x}) = Cardinality({i \in DOMAIN ys : ys[i] = x})

\* The table as a database whose fields are in the order the server listed them.
Listed(table) ==
    [name |-> table.table_name,
     fields |-> [i \in DOMAIN table.indexes |-> Field(table.indexes[i])]]

\* C25: the databases list_doc_databases returns are ascending by name and the
\* fields of each database are ascending by field name, in whatever order the
\* server listed the tables and their indexes; every listed table is returned
\* once, with the fields the server listed for it.
C25_ListSorted ==
    (Called("list_doc_databases") /\ call.op = "list_doc_databases" /\ ~applied.ret.panic) =>
        LET databases == applied.ret.value
        IN  /\ call.result = Ok
            /\ AscendingByName(databases)
            /\ \A i \in DOMAIN databases : AscendingByName(databases[i].fields)
            /\ Len(databases) = Len(applied.arg)
            /\ \A t \in DOMAIN applied.arg :
                 \E i \in DOMAIN databases :
                    /\ databases[i].name = applied.arg[t].table_name
                    /\ SameElements(databases[i].fields, Listed(applied.arg[t]).fields)

\* The server listed three tables out of order, each with its indexes out of
\* order, and the list came back.
C25_Witness ==
    /\ Called("list_doc_databases")
    /\ call.op = "list_doc_databases"
    /\ call.result = Ok
    /\ ~applied.ret.panic
    /\ Len(applied.arg) = 3
    /\ ~AscendingByName([i \in DOMAIN applied.arg |-> Listed(applied.arg[i])])
    /\ \A t \in DOMAIN applied.arg : ~AscendingByName(Listed(applied.arg[t]).fields)
    /\ applied.ret.value[1].name = NameT1
    /\ applied.ret.value[2].name = NameT10
    /\ applied.ret.value[3].name = NameT2
    /\ applied.ret.value[1].fields[1].name = NameId

----------------------------------------------------------------------------
(* C27 *)

\* C27: when signup, login, import_with_address or import_with_mnemonic returns
\* an error, the session store is exactly as it was before the call: a token
\* stored for the username is kept, none is stored for a username that had none,
\* and a Set-Cookie header of the rejected response is discarded.
C27_ErrorKeepsStore ==
    (Done /\ call.op \in OpenSessionOps /\ call.result.kind = "Err") =>
        /\ cookies = call.before
        /\ cookie(cookies, call.username) = cookie(call.before, call.username)

\* A login of a user with a stored token was rejected by a response that carried
\* another session token: the stored token is the old one.
C27_Witness ==
    /\ Answered
    /\ call.op = "login"
    /\ call.result.kind = "Err"
    /\ cookie(call.before, call.username) # None
    /\ TheReply.set_cookie # <<>>
    /\ PairName(TheReply.set_cookie[1]) = <<"fairOS-dfs">>
    /\ PairValue(TheReply.set_cookie[1]) # call.before[call.username]
    /\ cookie(cookies, call.username) = cookie(call.before, call.username)

\* A signup of a user without a token was rejected by a response that carried a
\* session token: no token is stored.
C27_WitnessNoToken ==
    /\ Answered
    /\ call.op = "signup"
    /\ call.result = Err(FairOSError("User", "UsernameAlreadyExists"))
    /\ cookie(call.before, call.username) = None
    /\ TheReply.set_cookie # <<>>
    /\ PairName(TheReply.set_cookie[1]) = <<"fairOS-dfs">>
    /\ cookie(cookies, call.username) = None

----------------------------------------------------------------------------
(* C28 *)

\* C28: logout and delete_user send their request carrying the token stored for
\* the username while the store is still as it was, and remove the token (of
\* that username only) only after a response with a 2xx status; after a rejected
\* request or a connect failure the token is still stored.
C28_RemoveAfterSuccess ==
    (call.op \in CloseSessionOps /\ call.requests # <<>>) =>
        /\ call.username \in DOMAIN call.before
        /\ call.requests[1].cookie = Some(<<"fairOS-dfs", "=">> \o call.before[call.username])
        /\ call.phase = "awaiting" => cookies = call.before
        /\ (Done /\ call.result.kind = "Ok") =>
              /\ Answered
              /\ SuccessStatus(TheReply.status)
              /\ cookies = remove_cookie(call.before, call.username)
              /\ cookie(cookies, call.username) = None
        /\ (Done /\ call.result.kind # "Ok") =>
              /\ cookies = call.before
              /\ cookie(cookies, call.username) = Some(call.before[call.username])

\* A logout was rejected: the token the request carried is still stored.
C28_Witness ==
    /\ Answered
    /\ call.op = "logout"
    /\ call.result = Err(FairOSError("User", "Error"))
    /\ ~SuccessStatus(TheReply.status)
    /\ call.requests[1].cookie = Some(<<"fairOS-dfs", "=">> \o cookies[call.username])

C28_WitnessUnreachable ==
    /\ Unreachable
    /\ call.op = "delete_user"
    /\ call.result = Err(CouldNotConnect)
    /\ call.requests[1].cookie = Some(<<"fairOS-dfs", "=">> \o cookies[call.username])

C28_WitnessRemoved ==
    /\ Answered
    /\ call.op \in CloseSessionOps
    /\ call.result = Ok
    /\ Cardinality(DOMAIN call.before) = 2
    /\ DOMAIN cookies = DOMAIN call.before \ {call.username}

----------------------------------------------------------------------------
(* C30 *)

SessionHeader(token) == Some(<<"fairOS-dfs", "=">> \o token)

\* The token the store holds for the username, if any.
StoredFor(cs, username) == IF username \in DOMAIN cs THEN <<cs[username]>> ELSE <<>>

\* After the step another call that needs the session of its username is in
\* flight: the step started it, or turned to it while others are awaiting.
StartsAuthenticated ==
    /\ call' # call
    /\ call'.phase = "awaiting"
    /\ call'.op \notin UnauthOps

\* The step is the successful return of signup, login or an import.
OpensSession ==
    /\ call.phase = "awaiting"
    /\ call.op \in OpenSessionOps
    /\ call'.phase = "done"
    /\ call'.result = Ok

\* C30: with several users logged in, every request of an operation made for a
\* username carries exactly the token stored for that username when the
\* operation is called, not the different token of another username; and a
\* successful login replaces the token of its username only, so that the token
\* stored, and carried from then on, is the one of the latest login.
C30_OwnCurrentToken ==
    [][ /\ StartsAuthenticated =>
            /\ call'.username \in DOMAIN cookies
            /\ \A i \in 1..Len(call'.requests) :
                 /\ call'.requests[i].cookie = SessionHeader(cookies[call'.username])
                 /\ \A other \in DOMAIN cookies :
                      cookies[other] # cookies[call'.username] =>
                         call'.requests[i].cookie # SessionHeader(cookies[other])
        /\ OpensSession =>
            /\ StoredFor(cookies', call.username) = call'.transport.cookie
            /\ \A other \in Usernames \ {call.username} :
                 StoredFor(cookies', other) = StoredFor(cookies, other)
      ]_vars

\* Two users are logged in with different tokens, a call made for alice has read
\* the head of its response and is awaiting the body, and a request made for bob
\* is in flight: it carries bob's token.
C30_Witness ==
    /\ call.phase = "awaiting"
    /\ \E other \in BagToSet(suspended) :
          /\ other.username = "alice"
          /\ other.op = "user_info"
          /\ other.head # None
          /\ other.requests[1].cookie = SessionHeader(cookies["alice"])
    /\ call.op = "create_pod"
    /\ call.username = "bob"
    /\ DOMAIN cookies = {"alice", "bob"}
    /\ cookies["alice"] # cookies["bob"]
    /\ call.requests = <<[method |-> "POST", path |-> "/pod/new",
                          cookie |-> SessionHeader(cookies["bob"])]>>

\* A user who had a token logged in again and was given another one.
C30_WitnessRelogin ==
    /\ Done
    /\ call.op = "login"
    /\ call.result = Ok
    /\ StoredFor(call.before, call.username) # <<>>
    /\ StoredFor(cookies, call.username) # StoredFor(call.before, call.username)
    /\ DOMAIN cookies = {"alice", "bob"}

----------------------------------------------------------------------------
(* C29 *)

\* The step is a poll of a stream whose last poll returned None.
PollsAfterEnd == polls.last = "End" /\ polls'.count = polls.count + 1

\* The request the poll of this step built.
BuiltRequest == polls'.pull[Len(polls'.pull)]

\* The request future of the poll completed with a 2xx reply that holds a key.
RequestSucceeded(entry) ==
    /\ entry.state = "completed"
    /\ entry.reply[1].connected
    /\ SuccessStatus(entry.reply[1].status)
    /\ entry.reply[1].body.kind = "data"
    /\ entry.reply[1].body.keys # <<>>

\* C29: the stream keeps no termination or cursor state of its own: a poll made
\* after it returned None builds another GET /kv/seek/next request with the
\* stored token, and if that request succeeds the poll yields the pair of its
\* reply, so None can be followed by a pair.
C29_NoLocalEnd ==
    [][ (PollsAfterEnd /\ cookie(cookies, stream[1].username) # None) =>
            /\ Len(polls'.pull) = Len(polls.pull) + 1
            /\ BuiltRequest.request.method = "GET"
            /\ BuiltRequest.request.path = "/kv/seek/next"
            /\ BuiltRequest.request.cookie = Some(CookieHeader(cookies[stream[1].username]))
            /\ RequestSucceeded(BuiltRequest) =>
                 /\ polls'.last = "Item"
                 /\ polls'.delivered =
                      Append(polls.delivered,
                             <<BuiltRequest.reply[1].body.keys[1], BuiltRequest.reply[1].body.values>>)
      ]_vars

\* The stream returned None because the server could not be reached, was polled
\* again, and yielded the pair the server's cursor was at.
C29_Witness ==
    /\ stream # None
    /\ polls.last = "Item"
    /\ Len(polls.pull) > 1
    /\ \E i \in 1..(Len(polls.pull) - 1) :
          /\ polls.pull[i].state = "completed"
          /\ polls.pull[i].reply = Some(NextConnectError)
    /\ polls.pull[Len(polls.pull)].reply[1].status = 200
    /\ polls.delivered # <<>>

====
